---- MODULE Spec2Model ----
(***************************************************************************)
(* A model of the data-wrangling core of the race dashboard pages:         *)
(*   - the lap-time / elapsed-time string parsers,                         *)
(*   - laps_to_ranges,                                                     *)
(*   - the per-car stint scan of show_stint_pace_chart,                    *)
(*   - get_overall_leader_by_lap and get_class_leader_by_lap,              *)
(*   - the practice run scans (fastest runs, long runs, longest stints).   *)
(* Each function has its own specification over its own variables; the    *)
(* variables of the other functions stay at their idle values.            *)
(*                                                                         *)
(* Strings are sequences of one-character strings.  Times are integers in  *)
(* thousandths of a second (Scale).  None / NaN / NaT is the record Null.  *)
(***************************************************************************)
EXTENDS Integers, Sequences, FiniteSets, TLC

VARIABLES
    \* --- string parsers ---
    time_str,            \* the argument handed to a parser
    time_fn,             \* which parser was called ("none" before the call)
    time_ret,            \* what the call returned
    \* --- laps_to_ranges ---
    laps,                \* the argument of laps_to_ranges
    ranges_text,         \* the returned string (Null before the call)
    \* --- show_stint_pace_chart, the scan of one car ---
    plot_df,             \* the selected rows of the car, as loaded
    top_pct,             \* the top-percentage setting
    car_group,           \* the car's rows after dropna and the sort
    stint_pc,            \* "prepare", "scan" or "done"
    idx,                 \* position of the next row of car_group
    stint_no,
    skip_next_lap,
    current_stint_idxs,
    rows,                \* the per-stint summary rows
    \* --- get_overall_leader_by_lap ---
    leader_pc,           \* "idle", "for", "body", "select", "picked", "done"
    lap,                 \* the lap of the current iteration
    lap_df,              \* the sorted rows of that lap
    prev_leader_car_id,  \* None is 0
    leaders,             \* the leader rows appended so far
    \* --- get_class_leader_by_lap ---
    class_df,            \* the argument: the rows of the race
    class_leader_df,     \* the returned rows (Null before the call)
    \* --- show_practice_fastest_runs, one car ---
    fr_df,               \* the car's rows after the class and car filters
    fr_top_percent,      \* the slider
    fr_group,            \* the rows kept by the top-percentage filter, by lap
    fr_pc,               \* "filter", "scan" or "done"
    fastest_runs,        \* the rows reported for the car
    \* --- show_practice_long_runs and get_longest_stints, one car ---
    lr_df,               \* the car's rows after the class and car filters
    lr_top_percent,      \* the slider
    lr_pc,               \* "page", "stints" or "done"
    long_run_records,    \* the rows show_practice_long_runs reports
    gls_group,           \* the rows get_longest_stints scans
    longest_runs         \* the rows get_longest_stints returns

parserVars == <<time_str, time_fn, time_ret>>
rangeVars  == <<laps, ranges_text>>
stintVars  == <<plot_df, top_pct, car_group, stint_pc, idx, stint_no,
                skip_next_lap, current_stint_idxs, rows>>
leaderVars == <<leader_pc, lap, lap_df, prev_leader_car_id, leaders>>
classVars  == <<class_df, class_leader_df>>
fastVars   == <<fr_df, fr_top_percent, fr_group, fr_pc, fastest_runs>>
longVars   == <<lr_df, lr_top_percent, lr_pc, long_run_records, gls_group,
                longest_runs>>

VARIABLES
    \* --- the pace charts and their top-percentage control ---
    pace_page,           \* the page that runs: "app", "practice_pace_chart",
                         \* "driver_pace_chart" or "streamlit_app"
    pace_df,             \* the rows handed to the page
    pace_top_percent,    \* the value of the control at the last run
    pace_warned,         \* the last run gave the 0% warning
    pace_shown,          \* what the last run rendered (Null: nothing)
    pace_prev            \* the control and the rendering of the run before

paceVars == <<pace_page, pace_df, pace_top_percent, pace_warned, pace_shown,
              pace_prev>>

VARIABLES
    \* --- show_team_season_comparison, one race of the selected team ---
    team_class_df,       \* the rows of the team and class in the race file
    pace_selected,       \* the percentages ticked, in the order of the boxes
    ts_pc,               \* "race", "traces", "summary" or "done"
    ts_i,                \* position in pace_selected of the next trace
    ts_traces,           \* the traces added to the figure
    summary_records      \* the records of the season summary

teamVars == <<team_class_df, pace_selected, ts_pc, ts_i, ts_traces,
              summary_records>>

VARIABLES
    \* --- streamlit_app.get_event_names, one series directory ---
    series_files,        \* os.listdir(series_path): the names in the directory
    ev_todo,             \* the names the loop has not reached yet
    events,              \* the dict built so far: base name -> event
    ev_pc                \* "loop" or "returned"

eventVars == <<series_files, ev_todo, events, ev_pc>>

VARIABLES
    \* --- streamlit_app: the sidebar filters and the page dispatch ---
    gf_df,                \* df as loaded for the selected event
    apply_global_filters, \* the checkbox
    selected_classes,     \* the 'Select Classes' multiselect
    selected_cars,        \* the 'Select Cars' multiselect
    page,                 \* the selected page
    gf_pc,                \* "sidebar" or "rendered"
    gf_given              \* the frames handed to the renderers of the page

filterVars == <<gf_df, apply_global_filters, selected_classes, selected_cars,
                page, gf_pc, gf_given>>

VARIABLES
    \* --- detect_pit_laps and show_practice_fastest_laps ---
    pl_df,               \* the rows of the session
    pit_laps,            \* the rows detect_pit_laps marks (Null before)
    fastest              \* the rows of the fastest-laps table (Null before)

pitVars == <<pl_df, pit_laps, fastest>>

VARIABLES
    \* --- race_tyre_analysis.infer_tyre_stints ---
    tyre_df,             \* the argument: the rows in the order of the file
    tyre_rows,           \* the rows with PIT_LAP and DRIVER_CHANGED, sorted
    ty_i,                \* position in tyre_rows of the next row
    stint_id,
    prev_car,            \* None is 0
    tyre_stint_ids,      \* TYRE_STINT_ID of the rows before ty_i
    ty_pc                \* "start", "loop", "returned" or "TypeError"

tyreVars == <<tyre_df, tyre_rows, ty_i, stint_id, prev_car, tyre_stint_ids,
              ty_pc>>

VARIABLES
    \* --- results_table.show_results_table ---
    res_df,              \* the argument df: a set of rows
    selected_class,      \* the selectbox "Select Class for Debug"
    display_df,          \* the table handed to st.dataframe
    res_pc               \* "start", "shown" or "KeyError"

resultVars == <<res_df, selected_class, display_df, res_pc>>

\* the variables of the pages
pageVars == <<paceVars, teamVars, eventVars, filterVars, pitVars, tyreVars, resultVars>>

-----------------------------------------------------------------------------
(* Values *)

Scale == 1000

Null == [tag |-> "null", v |-> 0]
Raised == [tag |-> "raise", v |-> 0]
Num(n) == [tag |-> "num", v |-> n]
IsNull(r) == r.tag = "null"
IsNum(r) == r.tag = "num"

NaN == <<"n", "a", "n">>

-----------------------------------------------------------------------------
(* Python string primitives, on sequences of characters *)

Digits == {"0", "1", "2", "3", "4", "5", "6", "7", "8", "9"}

DigitVal(c) ==
    CASE c = "0" -> 0 [] c = "1" -> 1 [] c = "2" -> 2 [] c = "3" -> 3
      [] c = "4" -> 4 [] c = "5" -> 5 [] c = "6" -> 6 [] c = "7" -> 7
      [] c = "8" -> 8 [] c = "9" -> 9

RECURSIVE LStrip(_)
LStrip(s) == IF s # <<>> /\ s[1] = " " THEN LStrip(Tail(s)) ELSE s

RECURSIVE RStrip(_)
RStrip(s) ==
    IF s # <<>> /\ s[Len(s)] = " " THEN RStrip(SubSeq(s, 1, Len(s) - 1)) ELSE s

\* str.strip()
Strip(s) == RStrip(LStrip(s))

\* str.upper(), on the letters the pit flag can hold
UpperChar(c) == IF c = "b" THEN "B" ELSE c
Upper(s) == [i \in 1..Len(s) |-> UpperChar(s[i])]

\* str.split(sep): always at least one part
RECURSIVE Split(_, _)
Split(s, sep) ==
    IF \A i \in 1..Len(s) : s[i] # sep
    THEN <<s>>
    ELSE LET i == CHOOSE k \in 1..Len(s) :
                      s[k] = sep /\ \A j \in 1..(k - 1) : s[j] # sep
         IN  <<SubSeq(s, 1, i - 1)>> \o Split(SubSeq(s, i + 1, Len(s)), sep)

AllDigits(s) == s # <<>> /\ \A i \in 1..Len(s) : s[i] \in Digits

HasSign(s) == s # <<>> /\ s[1] \in {"-", "+"}
Unsigned(s) == IF HasSign(s) THEN Tail(s) ELSE s
SignOf(s) == IF s # <<>> /\ s[1] = "-" THEN -1 ELSE 1

RECURSIVE NatVal(_)
NatVal(s) ==
    IF s = <<>> THEN 0
    ELSE NatVal(SubSeq(s, 1, Len(s) - 1)) * 10 + DigitVal(s[Len(s)])

\* int(s): surrounding blanks and one sign are accepted; anything else is a
\* ValueError (ok = FALSE)
PyInt(s) ==
    LET b == Strip(s) IN
    IF AllDigits(Unsigned(b))
    THEN [ok |-> TRUE, nan |-> FALSE, v |-> SignOf(b) * NatVal(Unsigned(b))]
    ELSE [ok |-> FALSE, nan |-> FALSE, v |-> 0]

\* the first three fractional digits, as thousandths
FracVal(f) ==
    LET d(i) == IF i <= Len(f) THEN DigitVal(f[i]) ELSE 0
    IN  d(1) * 100 + d(2) * 10 + d(3)

DigitsOrEmpty(s) == \A i \in 1..Len(s) : s[i] \in Digits

\* float(s): blanks, one sign, digits with at most one point ("1", "1.", ".5",
\* "1.5"), or "nan"; anything else is a ValueError.  The value is in
\* thousandths.
PyFloat(s) ==
    LET b == Strip(s)
        u == Unsigned(b)
        p == Split(u, ".")
    IN  IF u = NaN
        THEN [ok |-> TRUE, nan |-> TRUE, v |-> 0]
        ELSE IF Len(p) = 1 /\ AllDigits(u)
        THEN [ok |-> TRUE, nan |-> FALSE, v |-> SignOf(b) * NatVal(u) * Scale]
        ELSE IF /\ Len(p) = 2
                /\ DigitsOrEmpty(p[1]) /\ DigitsOrEmpty(p[2])
                /\ (p[1] # <<>> \/ p[2] # <<>>)
        THEN [ok |-> TRUE, nan |-> FALSE,
              v |-> SignOf(b) * (NatVal(p[1]) * Scale + FracVal(p[2]))]
        ELSE [ok |-> FALSE, nan |-> FALSE, v |-> 0]

\* A missing cell (None / NaN) is the value Missing; str() of it is "nan".
Missing == <<"<NA>">>
PyStr(x) == IF x = Missing THEN NaN ELSE x

\* the sum int(h)*3600 + int(m)*60 + float(s) of already converted fields:
\* a failed conversion raises ValueError, a nan seconds field gives nan
HMS(h, m, sec) ==
    IF ~(h.ok /\ m.ok /\ sec.ok) THEN [tag |-> "ValueError", v |-> 0]
    ELSE IF sec.nan THEN Null
    ELSE Num(h.v * 3600 * Scale + m.v * 60 * Scale + sec.v)

Zero == [ok |-> TRUE, nan |-> FALSE, v |-> 0]

\* float(s) alone, as the one-part branch uses it
Plain(sec) ==
    IF ~sec.ok THEN [tag |-> "ValueError", v |-> 0]
    ELSE IF sec.nan THEN Null ELSE Num(sec.v)

\* try: ... except ValueError / except Exception: return <fallback>
Except(r, fallback) == IF r.tag = "ValueError" THEN fallback ELSE r

-----------------------------------------------------------------------------
(* The parsers *)

NullWords == {<<"n", "a", "n">>, <<"n", "a">>, <<"n", "o", "n", "e">>}

\* race_tyre_analysis.lap_time_to_seconds
lap_time_to_seconds(lap_time_str) ==
    IF lap_time_str = Missing THEN Null
    ELSE LET s == Strip(lap_time_str)
             parts == Split(s, ":")
         IN  IF s = <<>> \/ s \in NullWords THEN Null
             ELSE Except(
                    IF Len(parts) = 2
                    THEN HMS(Zero, PyInt(parts[1]), PyFloat(parts[2]))
                    ELSE IF Len(parts) = 3
                    THEN HMS(PyInt(parts[1]), PyInt(parts[2]), PyFloat(parts[3]))
                    ELSE Plain(PyFloat(s)),
                    Null)

\* results_table.to_seconds
to_seconds(t0) ==
    IF t0 = Missing THEN Null
    ELSE LET t == Strip(t0)
             parts == Split(t, ":")
         IN  Except(
               IF Len(parts) = 3
               THEN HMS(PyInt(parts[1]), PyInt(parts[2]), PyFloat(parts[3]))
               ELSE IF Len(parts) = 2
               THEN HMS(Zero, PyInt(parts[1]), PyFloat(parts[2]))
               ELSE Null,
               Null)

\* practice_analysis.parse_elapsed_to_seconds
parse_elapsed_to_seconds(x) ==
    LET parts == Split(PyStr(x), ":")
    IN  Except(
          IF Len(parts) = 2
          THEN HMS(Zero, PyInt(parts[1]), PyFloat(parts[2]))
          ELSE IF Len(parts) = 3
          THEN HMS(PyInt(parts[1]), PyInt(parts[2]), PyFloat(parts[3]))
          ELSE Null,
          Null)

\* stint_pace_chart.time_to_seconds
time_to_seconds(time_str0) ==
    LET parts == Split(PyStr(time_str0), ":")
    IN  Except(
          IF Len(parts) = 3
          THEN HMS(PyInt(parts[1]), PyInt(parts[2]), PyFloat(parts[3]))
          ELSE IF Len(parts) = 2
          THEN HMS(Zero, PyInt(parts[1]), PyFloat(parts[2]))
          ELSE Plain(PyFloat(PyStr(time_str0))),
          Null)

-----------------------------------------------------------------------------
(* Parser inputs: up to MaxFields fields joined by ":" *)

MaxFields == 3

Fields ==
    { <<>>, <<"1">>, <<"3", "0">>, <<"1", ".", "5">>, <<"-", "1">>,
      <<" ", "2">>, <<"x">>, <<".">> }

RECURSIVE Joined(_)
Joined(n) ==
    IF n = 1 THEN Fields
    ELSE {a \o <<":">> \o b : a \in Joined(n - 1), b \in Fields}

TimeInputs == {Missing} \cup UNION {Joined(n) : n \in 1..MaxFields}

-----------------------------------------------------------------------------
(* race_stats.laps_to_ranges *)

\* sorted(): ascending, duplicates kept
RECURSIVE Insert(_, _)
Insert(x, s) ==
    IF s = <<>> THEN <<x>>
    ELSE IF x < s[1] THEN <<x>> \o s
    ELSE <<s[1]>> \o Insert(x, Tail(s))

Unsorted(s) == s

RECURSIVE Sorted(_)
Sorted(s) == IF s = <<>> THEN <<>> ELSE Insert(s[1], Sorted(Tail(s)))

DigitChar(d) ==
    CASE d = 0 -> "0" [] d = 1 -> "1" [] d = 2 -> "2" [] d = 3 -> "3"
      [] d = 4 -> "4" [] d = 5 -> "5" [] d = 6 -> "6" [] d = 7 -> "7"
      [] d = 8 -> "8" [] d = 9 -> "9"

\* f"{n}" of a non-negative integer
RECURSIVE Decimal(_)
Decimal(n) ==
    IF n < 10 THEN <<DigitChar(n)>>
    ELSE Decimal(n \div 10) \o <<DigitChar(n % 10)>>

\* the en dash (U+2013) that separates the ends of a range
Dash == "--"

\* f"{start}" if start == prev else f"{start}<en dash>{prev}"
RangeText(start, prev) ==
    IF start = prev THEN Decimal(start)
    ELSE Decimal(start) \o <<Dash>> \o Decimal(prev)

\* ", ".join(ranges)
RECURSIVE JoinComma(_)
JoinComma(rs) ==
    IF rs = <<>> THEN <<>>
    ELSE IF Len(rs) = 1 THEN rs[1]
    ELSE rs[1] \o <<",", " ">> \o JoinComma(Tail(rs))

\* the loop "for lap in laps[1:]" from position i on, then the final append
RECURSIVE RangeLoop(_, _, _, _, _)
RangeLoop(ls, i, start, prev, ranges) ==
    IF i > Len(ls)
    THEN Append(ranges, RangeText(start, prev))
    ELSE IF ls[i] = prev + 1
    THEN RangeLoop(ls, i + 1, start, ls[i], ranges)
    ELSE RangeLoop(ls, i + 1, ls[i], ls[i],
                   Append(ranges, RangeText(start, prev)))

laps_to_ranges(ls0) ==
    IF ls0 = <<>> THEN <<>>
    ELSE LET ls == Sorted(ls0)
         IN  JoinComma(RangeLoop(ls, 2, ls[1], ls[1], <<>>))

MaxListLen == 4
RangeLapNumbers == {1, 2, 3, 9, 10, 11}

RECURSIVE SeqsUpTo(_, _)
SeqsUpTo(S, n) ==
    IF n = 0 THEN {<<>>}
    ELSE LET shorter == SeqsUpTo(S, n - 1)
         IN  shorter \cup {Append(q, x) : q \in {r \in shorter : Len(r) = n - 1},
                                          x \in S}

-----------------------------------------------------------------------------
(* stint_pace_chart.show_stint_pace_chart: the stint scan of one car *)

\* str(flag).strip().upper() == "B"
IsPitFlag(flag) == Upper(Strip(PyStr(flag))) = <<"B">>

\* sort_values("LAP_NUMBER") of a set of rows with distinct lap numbers
RECURSIVE SortByLap(_)
SortByLap(S) ==
    IF S = {} THEN <<>>
    ELSE LET first == CHOOSE r \in S : \A q \in S : r.LAP_NUMBER <= q.LAP_NUMBER
         IN  <<first>> \o SortByLap(S \ {first})

\* LAP_TIME_SEC = time_to_seconds(LAP_TIME); rows without it are dropped
WithLapTimeSec(S) ==
    {[LAP_NUMBER |-> r.LAP_NUMBER, PIT |-> r.PIT,
      LAP_TIME_SEC |-> time_to_seconds(r.LAP_TIME)] : r \in S}
DropNa(S) == {r \in S : ~IsNull(r.LAP_TIME_SEC)}

Max(a, b) == IF a >= b THEN a ELSE b
Min(a, b) == IF a <= b THEN a ELSE b

\* the count rounded down instead of up
NKeepFloor(stint_length, pct) == Max(1, (stint_length * pct) \div 100)

\* max(1, int(math.ceil(stint_length * top_pct / 100.0)))
NKeep(stint_length, pct) == Max(1, (stint_length * pct + 99) \div 100)

RECURSIVE SumSeq(_)
SumSeq(s) == IF s = <<>> THEN 0 ELSE s[1] + SumSeq(Tail(s))

\* the summary row of the laps at positions idxs of group; the average is the
\* pair <<sum of the kept laps, number of kept laps>>
StintRow(group, idxs, no, pct) ==
    LET lap_secs == [i \in 1..Len(idxs) |-> group[idxs[i]].LAP_TIME_SEC.v]
        stint_length == Len(lap_secs)
        n_keep == NKeep(stint_length, pct)
        top_laps == SubSeq(Sorted(lap_secs), 1, Min(n_keep, stint_length))
    IN  [STINT_NUMBER |-> no,
         STINT_LAPS |-> stint_length,
         AVG_TOP_LAP_SEC |-> <<SumSeq(top_laps), Len(top_laps)>>,
         stint_laps |-> [i \in 1..Len(idxs) |-> group[idxs[i]].LAP_NUMBER]]

MaxStintLaps == 3
TopPcts == {1, 50, 100}
StintLapTimes == {Missing, <<"1", ":", "3", "0">>, <<"9", "5">>}
StintPitFlags == {<<>>, <<"B">>, <<"b", " ">>}

\* the rows of a car with laps 1..n
StintFrame(n, t, f) ==
    {[LAP_NUMBER |-> l, LAP_TIME |-> t[l], PIT |-> f[l]] : l \in 1..n}

-----------------------------------------------------------------------------
(* race_stats: leaders by lap *)

\* datetime.strptime(t, "%H:%M:%S.%f") or "%H:%M:%S": one or two digits per
\* field within range, an optional fraction of one to six digits
ClockField(f, limit) == AllDigits(f) /\ Len(f) <= 2 /\ NatVal(f) < limit

\* parse_hour_to_datetime's parse_time: thousandths of a second since
\* midnight of the base date, or NaT
parse_time(t0) ==
    IF t0 = Missing THEN Null
    ELSE LET t == Strip(t0)
             p == Split(t, ":")
             sp == IF Len(p) = 3 THEN Split(p[3], ".") ELSE <<>>
         IN  IF /\ Len(p) = 3
                /\ ClockField(p[1], 24) /\ ClockField(p[2], 60)
                /\ Len(sp) \in {1, 2} /\ ClockField(sp[1], 60)
                /\ (Len(sp) = 2 => AllDigits(sp[2]) /\ Len(sp[2]) <= 6)
             THEN Num((NatVal(p[1]) * 3600 + NatVal(p[2]) * 60 + NatVal(sp[1]))
                        * Scale
                      + (IF Len(sp) = 2 THEN FracVal(sp[2]) ELSE 0))
             ELSE Null

\* sort_values puts NaT / NaN after every value (na_position = "last")
NaLast == 2000000000
KeyOf(x) == IF IsNull(x) THEN NaLast ELSE x.v

\* the order of sort_values([..., "HOUR_DT", "ELAPSED"]) within one lap
HourFirstLE(a, b) ==
    \/ KeyOf(a.HOUR_DT) < KeyOf(b.HOUR_DT)
    \/ KeyOf(a.HOUR_DT) = KeyOf(b.HOUR_DT)
         /\ KeyOf(a.ELAPSED) <= KeyOf(b.ELAPSED)

ElapsedFirstLE(a, b) ==
    \/ KeyOf(a.ELAPSED) < KeyOf(b.ELAPSED)
    \/ KeyOf(a.ELAPSED) = KeyOf(b.ELAPSED)
         /\ KeyOf(a.HOUR_DT) <= KeyOf(b.HOUR_DT)

RowLE(a, b) == HourFirstLE(a, b)

\* the orders sort_values can leave a set of rows in: rows with equal keys
\* keep their file order, which is any order
RECURSIVE SortedOrders(_)
SortedOrders(S) ==
    IF S = {} THEN {<<>>}
    ELSE UNION {{<<m>> \o rest : rest \in SortedOrders(S \ {m})} :
                m \in {r \in S : \A q \in S : RowLE(r, q)}}

WithHourDt(S) ==
    {[CAR_ID |-> r.CAR_ID, CLASS |-> r.CLASS, DRIVER_NAME |-> r.DRIVER_NAME,
      ELAPSED |-> r.ELAPSED, PIT |-> r.PIT, FLAG_AT_FL |-> r.FLAG_AT_FL,
      HOUR_DT |-> parse_time(r.HOUR)] : r \in S}

NoneId == 0
NoFlag == "nan"

\* lap_df[lap_df["CROSSING_FINISH_LINE_IN_PIT"] != "B"]
NotInPit(r) == r.PIT # <<"B">>
AnyRow(r) == TRUE
PitFilter(r) == NotInPit(r)

\* lines 105-111
Eligible(ldf) ==
    LET e == SelectSeq(ldf, PitFilter) IN IF e = <<>> THEN ldf ELSE e

\* 'FCY' as soon as one record of the lap carries it
LapFlagAnyFCY(ldf) ==
    LET fs == {ldf[i].FLAG_AT_FL : i \in 1..Len(ldf)} \ {NoFlag}
    IN  IF "FCY" \in fs THEN "FCY" ELSE NoFlag

\* lines 107-108: the one flag value of the lap, or None
LapFlag(ldf) ==
    LET fs == {ldf[i].FLAG_AT_FL : i \in 1..Len(ldf)} \ {NoFlag}
    IN  IF Cardinality(fs) = 1 THEN CHOOSE f \in fs : TRUE ELSE NoFlag

NoCarry(ldf, prev) == Eligible(ldf)[1]

\* lines 113-120
LeaderRow(ldf, prev) ==
    LET e == Eligible(ldf)
        IsPrev(r) == r.CAR_ID = prev
        prev_leader_rows == SelectSeq(e, IsPrev)
    IN  IF LapFlag(ldf) = "FCY" /\ prev # NoneId
        THEN IF prev_leader_rows # <<>> THEN prev_leader_rows[1] ELSE e[1]
        ELSE e[1]

MaxLaps == 2
Cars == {1, 2, 3}
ClassOf(c) == IF c = 3 THEN "GT" ELSE "HYPER"
HourEarly == <<"9", ":", "0", ":", "5">>
HourLate == <<"9", ":", "0", ":", "5", ".", "5">>
HourStrs == {Missing, HourEarly, HourLate}
Elapseds == {Num(1000), Num(2000)}
PitValues == {<<>>, <<"B">>}
\* the FLAG_AT_FL column of one lap: one value for all, or car 1 differing
LapFlagPatterns ==
    {[c \in Cars |-> f] : f \in {"FCY", "GF", NoFlag}}
      \cup {[c \in Cars |-> IF c = 1 THEN f ELSE "FCY"] : f \in {"GF", NoFlag}}

\* the rows of one lap: one per car present
LapFrame(present, h, e, p, fl) ==
    {[CAR_ID |-> c, CLASS |-> ClassOf(c), DRIVER_NAME |-> c, HOUR |-> h[c],
      ELAPSED |-> e[c], PIT |-> p[c], FLAG_AT_FL |-> fl[c]] : c \in present}

-----------------------------------------------------------------------------
(* race_stats.get_class_leader_by_lap *)

ClassRank(c) == IF c = "GT" THEN 1 ELSE 2

\* the order of sort_values(["LAP_NUMBER", "CLASS", "HOUR_DT", "ELAPSED"])
ClassSortLE(a, b) ==
    \/ a.LAP_NUMBER < b.LAP_NUMBER
    \/ /\ a.LAP_NUMBER = b.LAP_NUMBER
       /\ \/ ClassRank(a.CLASS) < ClassRank(b.CLASS)
          \/ ClassRank(a.CLASS) = ClassRank(b.CLASS) /\ HourFirstLE(a, b)

ClassSortElapsedFirstLE(a, b) ==
    \/ a.LAP_NUMBER < b.LAP_NUMBER
    \/ /\ a.LAP_NUMBER = b.LAP_NUMBER
       /\ \/ ClassRank(a.CLASS) < ClassRank(b.CLASS)
          \/ ClassRank(a.CLASS) = ClassRank(b.CLASS) /\ ElapsedFirstLE(a, b)

ClassRowLE(a, b) == ClassSortLE(a, b)

RECURSIVE ClassSortedOrders(_)
ClassSortedOrders(S) ==
    IF S = {} THEN {<<>>}
    ELSE UNION {{<<m>> \o rest : rest \in ClassSortedOrders(S \ {m})} :
                m \in {r \in S : \A q \in S : ClassRowLE(r, q)}}

WithHourDtLap(S) ==
    {[LAP_NUMBER |-> r.LAP_NUMBER, CAR_ID |-> r.CAR_ID, CLASS |-> r.CLASS,
      DRIVER_NAME |-> r.DRIVER_NAME, ELAPSED |-> r.ELAPSED, PIT |-> r.PIT,
      FLAG_AT_FL |-> r.FLAG_AT_FL, HOUR_DT |-> parse_time(r.HOUR)] : r \in S}

NoName == 0

\* GroupBy.first(): per column, the first value of the group that is not
\* null (null if there is none)
FirstDriver(g) ==
    LET named == SelectSeq(g, LAMBDA r : r.DRIVER_NAME # NoName)
    IN  IF named = <<>> THEN NoName ELSE named[1].DRIVER_NAME

\* the group keys of the sorted frame q, in order, without repetition
RECURSIVE GroupKeys(_)
GroupKeys(q) ==
    IF q = <<>> THEN <<>>
    ELSE LET rest == GroupKeys(Tail(q))
             k == <<q[1].LAP_NUMBER, q[1].CLASS>>
         IN  IF rest # <<>> /\ rest[1] = k THEN rest ELSE <<k>> \o rest

\* .groupby(["LAP_NUMBER", "CLASS"], as_index=False).first()[[...]]
GroupFirst(q) ==
    LET keys == GroupKeys(q)
    IN  [i \in 1..Len(keys) |->
            LET g == SelectSeq(q, LAMBDA r :
                         <<r.LAP_NUMBER, r.CLASS>> = keys[i])
            IN  [LAP_NUMBER |-> keys[i][1], CLASS |-> keys[i][2],
                 CAR_ID |-> g[1].CAR_ID, DRIVER_NAME |-> FirstDriver(g)]]

MaxRows == 3
ClassLapNumbers == {1, 2}
\* DRIVER_NAME is the car's id, or missing for every row of car 1
DriverPatterns ==
    {[c \in Cars |-> c], [c \in Cars |-> IF c = 1 THEN NoName ELSE c]}

ClassCells == ClassLapNumbers \X Cars

\* a frame: one row per cell (car and lap), all under full-course yellow
ClassFrame(cells, k, p, d) ==
    {[LAP_NUMBER |-> cell[1], CAR_ID |-> cell[2], CLASS |-> ClassOf(cell[2]),
      DRIVER_NAME |-> d[cell[2]], HOUR |-> k[cell][1], ELAPSED |-> k[cell][2],
      PIT |-> p[cell], FLAG_AT_FL |-> "FCY"] : cell \in cells}

\* the HOUR and ELAPSED of a row
HourElapsedPairs == (HourStrs \X Elapseds) \ {<<HourLate, Num(2000)>>}

\* at most MaxRows rows, at least one
ClassCellSets == {c \in SUBSET ClassCells : Cardinality(c) \in 1..MaxRows}

-----------------------------------------------------------------------------
(* The practice pages: lap_to_seconds and the top-percentage filter *)

\* lap_to_seconds of the practice pages: "mins, secs = x.split(':')" raises
\* unless there are exactly two parts, and so does anything that is not a
\* string; every exception gives None
lap_to_seconds(x) ==
    IF x = Missing THEN Null
    ELSE LET parts == Split(x, ":")
         IN  Except(IF Len(parts) = 2
                    THEN HMS(Zero, PyInt(parts[1]), PyFloat(parts[2]))
                    ELSE [tag |-> "ValueError", v |-> 0],
                    Null)

WithLapTimeSeconds(S) ==
    {[LAP_NUMBER |-> r.LAP_NUMBER, PRACTICE_SESSION |-> r.PRACTICE_SESSION,
      PIT |-> r.PIT, LAP_TIME_SECONDS |-> lap_to_seconds(r.LAP_TIME)] : r \in S}
DropNaSeconds(S) == {r \in S : ~IsNull(r.LAP_TIME_SECONDS)}

\* the count rounded up instead of down
TopNKeepCeil(n_laps, percent) == Max(1, (n_laps * percent + 99) \div 100)

\* max(1, int(n_laps * percent / 100))
TopNKeep(n_laps, percent) == Max(1, (n_laps * percent) \div 100)

\* sort_values("LAP_TIME_SECONDS").head(n_keep): the n_keep fastest rows; the
\* sort is not stable, so among rows of equal time any may be kept
TopPercentKept(S, percent) ==
    {K \in SUBSET S :
        /\ Cardinality(K) = Min(Cardinality(S), TopNKeep(Cardinality(S), percent))
        /\ \A a \in K, b \in S \ K :
              a.LAP_TIME_SECONDS.v <= b.LAP_TIME_SECONDS.v}

\* sort_values(["PRACTICE_SESSION", "LAP_NUMBER"]) of rows that differ in
\* session or lap
RECURSIVE SortBySessionLap(_)
SortBySessionLap(S) ==
    IF S = {} THEN <<>>
    ELSE LET first == CHOOSE r \in S : \A q \in S :
                 \/ r.PRACTICE_SESSION < q.PRACTICE_SESSION
                 \/ /\ r.PRACTICE_SESSION = q.PRACTICE_SESSION
                    /\ r.LAP_NUMBER <= q.LAP_NUMBER
         IN  <<first>> \o SortBySessionLap(S \ {first})

\* a mean as the pair <<sum, count>>; None is <<0, 0>>
NoMean == <<0, 0>>
MeanOf(stint) ==
    <<SumSeq([i \in 1..Len(stint) |-> stint[i].LAP_TIME_SECONDS.v]), Len(stint)>>
MeanLT(a, b) == a[1] * b[2] < b[1] * a[2]

-----------------------------------------------------------------------------
(* practice_fastest_runs.show_practice_fastest_runs: the scan of one car *)

\* lines 91-93 and 106-108
KeepFaster(best, stint) ==
    IF best.max_avg_lap_time = NoMean
         \/ MeanLT(MeanOf(stint), best.max_avg_lap_time)
    THEN [max_avg_lap_time |-> MeanOf(stint), fastest_stint |-> stint]
    ELSE best

\* lines 81-108
RECURSIVE FastestLoop(_, _, _, _, _)
FastestLoop(group, i, best, current_stint, skip_next) ==
    IF i > Len(group)
    THEN IF current_stint # <<>> THEN KeepFaster(best, current_stint) ELSE best
    ELSE IF skip_next
    THEN FastestLoop(group, i + 1, best, current_stint, FALSE)
    ELSE IF IsPitFlag(group[i].PIT)
    THEN FastestLoop(group, i + 1,
                     IF current_stint # <<>>
                     THEN KeepFaster(best, current_stint) ELSE best,
                     <<>>, TRUE)
    ELSE FastestLoop(group, i + 1, best, Append(current_stint, group[i]), FALSE)

MinStintLaps == 7

LapNumbersOf(stint) == [i \in 1..Len(stint) |-> stint[i].LAP_NUMBER]

\* lines 110-134
FastestRunRows(group) ==
    LET best == FastestLoop(group, 1,
                    [max_avg_lap_time |-> NoMean, fastest_stint |-> <<>>],
                    <<>>, FALSE)
        stint == best.fastest_stint
    IN  IF stint # <<>> /\ Len(stint) >= MinStintLaps
        THEN <<[Average_Lap_Time_Seconds |-> MeanOf(stint),
                Lap_Numbers |-> LapNumbersOf(stint),
                Stint_Length |-> Len(stint)]>>
        ELSE <<>>

MaxRunLaps == 10
MaxPits == 2
FastLap == <<"1", ":", "2", "0">>
SlowLap == <<"1", ":", "3", "0">>
FastTopPercents == {80, 100}

\* the rows of a car with laps 1..n in one session: the laps up to "change"
\* have one time and the later ones the other; the laps of "pits" are
\* flagged 'B'
RunFrame(n, change, fastFirst, pits) ==
    {[LAP_NUMBER |-> l, PRACTICE_SESSION |-> 1,
      LAP_TIME |-> IF (l <= change) = fastFirst THEN FastLap ELSE SlowLap,
      PIT |-> IF l \in pits THEN <<"B">> ELSE <<>>] : l \in 1..n}

-----------------------------------------------------------------------------
(* practice_long_runs.show_practice_long_runs: the runs of one car *)

\* row["CROSSING_FINISH_LINE_IN_PIT"] == "B"
IsExactlyB(flag) == flag = <<"B">>

\* lines 81-99: the runs from row i on
RECURSIVE RunsLoop(_, _, _, _, _)
RunsLoop(group, i, runs, current_run, skip_next) ==
    IF i > Len(group)
    THEN IF current_run # <<>> THEN Append(runs, current_run) ELSE runs
    ELSE IF skip_next
    THEN RunsLoop(group, i + 1, runs, current_run, FALSE)
    ELSE IF IsExactlyB(group[i].PIT)
    THEN RunsLoop(group, i + 1,
                  IF current_run # <<>> THEN Append(runs, current_run) ELSE runs,
                  <<>>, TRUE)
    ELSE RunsLoop(group, i + 1, runs, Append(current_run, group[i]), FALSE)

\* max(runs, key=len): the first run of the greatest length
RECURSIVE FirstLongest(_)
FirstLongest(runs) ==
    IF Len(runs) = 1 THEN runs[1]
    ELSE LET rest == FirstLongest(Tail(runs))
         IN  IF Len(runs[1]) >= Len(rest) THEN runs[1] ELSE rest

SessionLapsOf(run) ==
    [i \in 1..Len(run) |-> <<run[i].PRACTICE_SESSION, run[i].LAP_NUMBER>>]

\* lines 101-143: the row of the car, if it has a run
LongRunRecords(group) ==
    LET runs == RunsLoop(group, 1, <<>>, <<>>, FALSE)
    IN  IF runs = <<>> THEN <<>>
        ELSE LET longest_run == FirstLongest(runs)
             IN  <<[AVG_LAP_TIME |-> MeanOf(longest_run),
                    LAPS |-> SessionLapsOf(longest_run),
                    SESSION |-> longest_run[1].PRACTICE_SESSION,
                    STINT_LENGTH |-> Len(longest_run)]>>

-----------------------------------------------------------------------------
(* practice_analysis.get_longest_stints: the scan of one car *)

NoSession == 0

\* lines 85-87 and 98-100
KeepLonger(best, current_stint, current_stint_session) ==
    IF current_stint # <<>> /\ Len(current_stint) > Len(best.max_stint)
    THEN [max_stint |-> current_stint,
          max_stint_session |-> current_stint_session]
    ELSE best

\* lines 79-100
RECURSIVE LongestLoop(_, _, _, _, _, _)
LongestLoop(group, i, best, current_stint, current_stint_session, skip_next) ==
    IF i > Len(group)
    THEN KeepLonger(best, current_stint, current_stint_session)
    ELSE IF skip_next
    THEN LongestLoop(group, i + 1, best, current_stint, current_stint_session,
                     FALSE)
    ELSE IF IsPitFlag(group[i].PIT)
    THEN LongestLoop(group, i + 1,
                     KeepLonger(best, current_stint, current_stint_session),
                     <<>>, NoSession, TRUE)
    ELSE LongestLoop(group, i + 1, best, Append(current_stint, group[i]),
                     IF current_stint = <<>> THEN group[i].PRACTICE_SESSION
                     ELSE current_stint_session,
                     FALSE)

\* lines 73-115: the row of the car, if it has a stint
LongestRuns(group) ==
    LET best == LongestLoop(group, 1,
                    [max_stint |-> <<>>, max_stint_session |-> NoSession],
                    <<>>, NoSession, FALSE)
    IN  IF best.max_stint = <<>> THEN <<>>
        ELSE <<[Lap_Times |-> [i \in 1..Len(best.max_stint) |->
                                  best.max_stint[i].LAP_TIME_SECONDS.v],
                LAPS |-> SessionLapsOf(best.max_stint),
                Stint_Length |-> Len(best.max_stint),
                Session |-> best.max_stint_session]>>

MaxLongLaps == 4
LongTopPercents == {20, 40, 60, 80, 100}
LongLapTimes == {FastLap, SlowLap}

\* the rows of a car: laps 1..a of session 1, then laps 1..(n - a) of
\* session 2
LongFrame(n, a, t, f) ==
    {[LAP_NUMBER |-> IF k <= a THEN k ELSE k - a,
      PRACTICE_SESSION |-> IF k <= a THEN 1 ELSE 2,
      LAP_TIME |-> t[k], PIT |-> f[k]] : k \in 1..n}

-----------------------------------------------------------------------------
(* The pace charts: pace-chart.show_pace_chart (run by app.main),          *)
(* practice_pace_chart.show_practice_pace_chart,                           *)
(* driver_pace_chart.show_driver_pace_chart and the sidebar control of     *)
(* streamlit_app                                                           *)

\* df["LAP_TIME_SECONDS"] = df["LAP_TIME"].apply(lap_to_seconds)
WithPaceSeconds(S) ==
    {[NUMBER |-> r.NUMBER, DRIVER_NAME |-> r.DRIVER_NAME,
      LAP_NUMBER |-> r.LAP_NUMBER,
      LAP_TIME_SECONDS |-> lap_to_seconds(r.LAP_TIME)] : r \in S}

\* ... followed by df.dropna(subset=["LAP_TIME_SECONDS"])
ValidLaps(S) == DropNaSeconds(WithPaceSeconds(S))

\* df.groupby("NUMBER")
GroupsByNumber(S) == {{r \in S : r.NUMBER = c} : c \in {r.NUMBER : r \in S}}

\* df.groupby(["NUMBER", "DRIVER_NAME"])
GroupsByNumberDriver(S) ==
    {{r \in S : r.NUMBER = k[1] /\ r.DRIVER_NAME = k[2]} :
        k \in {<<r.NUMBER, r.DRIVER_NAME>> : r \in S}}

\* the frames that the loop over the groups can collect: for each group the
\* head(n_keep) of its sorted rows
RECURSIVE ConcatKept(_, _)
ConcatKept(groups, percent) ==
    IF groups = {} THEN {{}}
    ELSE LET g == CHOOSE x \in groups : TRUE
         IN  {K \cup rest : K \in TopPercentKept(g, percent),
                            rest \in ConcatKept(groups \ {g}, percent)}

\* what a run of a page renders
Chart(kept) == [tag |-> "chart", rows |-> kept]
\* pd.concat([]) raises ValueError: No objects to concatenate
ConcatError == [tag |-> "ValueError", rows |-> {}]

\* filter_top_percent_laps followed by the chart of the kept rows
filter_top_percent_laps(groups, percent) ==
    IF groups = {} THEN {ConcatError}
    ELSE {Chart(K) : K \in ConcatKept(groups, percent)}

\* percentage_options of app.py and the sliders 0..100 in steps of 20
PercentageOptions == {0, 20, 40, 60, 80, 100}
\* some of the values of the slider 0..100 in steps of 5
DriverPercents == {0, 5, 50, 100}

PacePages == {"app", "practice_pace_chart", "driver_pace_chart", "streamlit_app"}

MaxPaceLaps == 4
PaceLapTimes == {Missing, FastLap, SlowLap}

\* car 1 with laps 1..n, driven in turn by drivers 1 and 2, and car 2 with
\* laps 1..m of driver 3
PaceFrame(n, t, m) ==
    {[NUMBER |-> 1, DRIVER_NAME |-> 2 - (k % 2), LAP_NUMBER |-> k,
      LAP_TIME |-> t[k]] : k \in 1..n}
    \cup {[NUMBER |-> 2, DRIVER_NAME |-> 3, LAP_NUMBER |-> k,
           LAP_TIME |-> FastLap] : k \in 1..m}

-----------------------------------------------------------------------------
(* team_season_comparison.show_team_season_comparison *)

\* LAP_TIME_SEC = lap_to_seconds(LAP_TIME); rows without it are dropped
WithTeamLapTimeSec(S) ==
    {[DRIVER_NAME |-> r.DRIVER_NAME, LAP_NUMBER |-> r.LAP_NUMBER,
      LAP_TIME_SEC |-> lap_to_seconds(r.LAP_TIME)] : r \in S}
TeamValidLaps(S) == {r \in WithTeamLapTimeSec(S) : ~IsNull(r.LAP_TIME_SEC)}

\* the sum of the k least lap times of the rows S (k <= the number of rows)
RECURSIVE SumOfFastest(_, _)
SumOfFastest(S, k) ==
    IF k = 0 \/ S = {} THEN 0
    ELSE LET r == CHOOSE x \in S :
                 \A y \in S : x.LAP_TIME_SEC.v <= y.LAP_TIME_SEC.v
         IN  r.LAP_TIME_SEC.v + SumOfFastest(S \ {r}, k - 1)

\* top_count = max(1, int(len(team_class_df) * pct / 100))
TopCount(df, pct) == Max(1, (Cardinality(df) * pct) \div 100)

\* sort_values("LAP_TIME_SEC").groupby("DRIVER_NAME").head(top_count), then
\* groupby("DRIVER_NAME")["LAP_TIME_SEC"].mean(): one record per driver, the
\* mean as <<sum, count>>
DriverAvgs(df, pct) ==
    {LET own == {r \in df : r.DRIVER_NAME = drv}
         k == Min(TopCount(df, pct), Cardinality(own))
     IN  [DRIVER_NAME |-> drv, LAP_TIME_SEC |-> <<SumOfFastest(own, k), k>>] :
        drv \in {r.DRIVER_NAME : r \in df}}

\* pace_percents
PacePercents == <<20, 40, 60, 80, 100>>
\* some of the ways to tick the boxes
PaceSelections == {PacePercents, <<40>>, <<>>}

MaxTeamLaps == 5
TeamLapTimes == {Missing, FastLap, SlowLap}

\* laps 1..a of driver 1, then laps a+1..n of driver 2
TeamFrame(n, a, t) ==
    {[DRIVER_NAME |-> IF k <= a THEN 1 ELSE 2, LAP_NUMBER |-> k,
      LAP_TIME |-> t[k]] : k \in 1..n}

-----------------------------------------------------------------------------
(* streamlit_app.get_event_names *)

UpperLetters == <<"A", "C", "E", "I", "N", "O", "P", "R", "S", "T", "V">>
LowerLetters == <<"a", "c", "e", "i", "n", "o", "p", "r", "s", "t", "v">>

\* str.lower(), on the letters the file names hold
LowerChar(c) ==
    IF \E i \in 1..Len(UpperLetters) : UpperLetters[i] = c
    THEN LowerLetters[CHOOSE i \in 1..Len(UpperLetters) : UpperLetters[i] = c]
    ELSE c
Lower(s) == [i \in 1..Len(s) |-> LowerChar(s[i])]

EndsWith(s, suffix) ==
    /\ Len(s) >= Len(suffix)
    /\ SubSeq(s, Len(s) - Len(suffix) + 1, Len(s)) = suffix

DotCsv == <<".", "c", "s", "v">>
SessionWords ==
    {<<"p", "r", "a", "c", "t", "i", "c", "e">>,
     <<"s", "e", "s", "s", "i", "o", "n">>}

\* no match of a regular expression; a matched group(1) is never empty
NoMatch == <<>>
\* "race_file": None; a file name is never empty
NoFile == <<>>

\* RACE_CSV_RE = ^(.+)\.csv$, IGNORECASE: group(1) of the match
RaceMatch(f) ==
    IF Len(f) > Len(DotCsv) /\ EndsWith(Lower(f), DotCsv)
    THEN SubSeq(f, 1, Len(f) - Len(DotCsv))
    ELSE NoMatch

\* the whole of s is _(practice|session)(\d+)\.csv, IGNORECASE
IsSessionTail(s) ==
    \E w \in SessionWords :
        /\ Len(s) > 1 + Len(w) + Len(DotCsv)
        /\ s[1] = "_"
        /\ Lower(SubSeq(s, 2, 1 + Len(w))) = w
        /\ EndsWith(Lower(s), DotCsv)
        /\ \A i \in (2 + Len(w))..(Len(s) - Len(DotCsv)) : s[i] \in Digits

\* no file name is taken as a session
NoSessionMatch(f) == NoMatch

\* SESSION_CSV_RE = ^(.+?)_(practice|session)(\d+)\.csv$, IGNORECASE:
\* group(1) of the match with the shortest group(1)
SessionMatch(f) ==
    LET splits == {i \in 1..Len(f) : IsSessionTail(SubSeq(f, i + 1, Len(f)))}
    IN  IF splits = {} THEN NoMatch
        ELSE SubSeq(f, 1, CHOOSE i \in splits : \A j \in splits : i <= j)

NoEvent == [race_file |-> NoFile, sessions |-> <<>>]

\* events.setdefault(base_name, {"race_file": None, "sessions": []})
SetDefault(evs, base_name) ==
    IF base_name \in DOMAIN evs THEN evs ELSE (base_name :> NoEvent) @@ evs

\* lines 27-40: the body of the loop for the file f
VisitFile(evs, f) ==
    IF ~EndsWith(Lower(f), DotCsv) THEN evs
    ELSE IF SessionMatch(f) # NoMatch
    THEN LET base_name == Lower(SessionMatch(f))
             e == SetDefault(evs, base_name)
         IN  [e EXCEPT ![base_name].sessions = Append(@, f)]
    ELSE IF RaceMatch(f) # NoMatch
    THEN LET base_name == Lower(RaceMatch(f))
             e == SetDefault(evs, base_name)
         IN  [e EXCEPT ![base_name].race_file = f]
    ELSE evs

MaxFiles == 3

Practice1 == <<"_", "p", "r", "a", "c", "t", "i", "c", "e", "1">>
Session12 == <<"_", "S", "e", "s", "s", "i", "o", "n", "1", "2">>
\* the file names a series directory can hold
FileNames ==
    {<<"a">> \o DotCsv,
     <<"A">> \o DotCsv,
     <<"a", ".", "C", "S", "V">>,
     <<"a">> \o Practice1 \o DotCsv,
     <<"A">> \o Session12 \o <<".", "C", "S", "V">>,
     <<"a", "_", "p", "r", "a", "c", "t", "i", "c", "e">> \o DotCsv,
     <<"a">> \o Practice1 \o Session12 \o DotCsv,
     Practice1 \o DotCsv,
     DotCsv,
     <<"a", ".", "t", "x", "t">>,
     <<"a">> \o Practice1 \o <<".", "t", "x", "t">>}

-----------------------------------------------------------------------------
(* streamlit_app: the sidebar filters and the renderers of the pages *)

\* a missing CLASS cell
NoClass == "nan"

\* df["CLASS"].dropna().unique()
AvailableClasses(df) == {r.CLASS : r \in df} \ {NoClass}
\* df["NUMBER"].unique()
AvailableCars(df) == {r.NUMBER : r \in df}

Pages == {"Overview", "Team by team", "Team season comparison",
          "Track analysis", "Practice / Test analysis"}

\* lines 289-330: the frames the renderers of the page are called with.
\* "Team by team" calls its renderer once per class with the rows of the
\* class; the other pages work on df (the practice page loads the files of
\* the event again)
GivenToRenderers(pg, df) ==
    IF pg = "Team by team"
    THEN {{r \in df : r.CLASS = c} : c \in AvailableClasses(df)}
    ELSE {df}

FilterCars == {1, 2, 3, 4}
\* cars 1 and 2 are of one class, car 3 of another, car 4 has no class
FilterClassOf(c) == IF c \in {1, 2} THEN "HYPER"
                    ELSE IF c = 3 THEN "GT" ELSE NoClass
MaxFilterLaps == 2
\* each car of the set has the laps 1..n
FilterFrame(cars, n) ==
    {[NUMBER |-> c, CLASS |-> FilterClassOf(c), LAP_NUMBER |-> l] :
        c \in cars, l \in 1..n}

-----------------------------------------------------------------------------
(* race_tyre_analysis.detect_pit_laps and                                  *)
(* practice_fastest_laps_table.show_practice_fastest_laps                  *)

\* a cell of a column that holds strings, numbers or nothing (Null)
StrCell(s) == [tag |-> "str", v |-> s]
IsStr(c) == c.tag = "str"

\* parse_pit_time: the seconds of a PIT_TIME cell, 0.0 when it has none
parse_pit_time(val) ==
    IF IsNull(val) THEN Num(0)
    ELSE IF IsNum(val) THEN val
    ELSE LET s == Strip(val.v)
             parts == Split(s, ":")
         IN  IF s = <<>> \/ s \in NullWords THEN Num(0)
             ELSE Except(
                    IF Len(parts) = 2
                    THEN HMS(Zero, PyInt(parts[1]), PyFloat(parts[2]))
                    ELSE IF Len(parts) = 3
                    THEN HMS(PyInt(parts[1]), PyInt(parts[2]), PyFloat(parts[3]))
                    ELSE Plain(PyFloat(s)),
                    Num(0))

\* df["CROSSING_FINISH_LINE_IN_PIT"] == 1
IsOne(c) == IsNum(c) /\ c.v = 1
\* the test of the stint scans: str(flag).strip().upper() == "B"
IsB(c) == IsStr(c) /\ IsPitFlag(c.v)

PitTimeThreshold == 3

\* (df["CROSSING_FINISH_LINE_IN_PIT"] == 1) | (pit_time_seconds > 3)
detect_pit_laps(r) ==
    \/ IsOne(r.PIT)
    \/ LET t == parse_pit_time(r.PIT_TIME)
       IN  IsNum(t) /\ t.v > PitTimeThreshold * Scale

ZeroLap == <<"0", "0", ":", "0", "0", ".", "0", "0", "0">>

\* lines 51-60: astype(str).str.strip().replace({...: None})
CleanLapTime(x) ==
    LET s == Strip(PyStr(x))
    IN  IF s = <<>> \/ s = NaN \/ s = <<"N", "a", "N">> \/ s = ZeroLap
        THEN Missing ELSE s

\* parse_lap_time: the lap time in thousandths of a second, or None
parse_lap_time(lap_time_str) ==
    IF lap_time_str = Missing THEN Null
    ELSE LET s == Strip(lap_time_str)
             parts == Split(s, ":")
         IN  IF s = <<>> \/ s \in NullWords THEN Null
             ELSE IF Len(parts) = 2
             THEN Except(HMS(Zero, PyInt(parts[1]), PyFloat(parts[2])), Null)
             ELSE Null

\* lines 62-76: the valid laps that are not excluded as pit laps
WithLapTimeTd(S) ==
    {[NUMBER |-> r.NUMBER, LAP_NUMBER |-> r.LAP_NUMBER, PIT |-> r.PIT,
      LAP_TIME_TD |-> parse_lap_time(CleanLapTime(r.LAP_TIME))] : r \in S}
FastestLapCandidates(S) ==
    {r \in WithLapTimeTd(S) : ~IsNull(r.LAP_TIME_TD) /\ ~IsOne(r.PIT)}

\* lines 86-87: groupby("NUMBER")["LAP_TIME_TD"].idxmin(), the first of the
\* fastest rows of each car in the order of the file: the tables that some
\* order of the rows gives
FastestTables(S) ==
    LET cand == FastestLapCandidates(S)
        cars == {r.NUMBER : r \in cand}
        Best(c) == {r \in cand : /\ r.NUMBER = c
                                 /\ \A q \in cand : q.NUMBER = c =>
                                       r.LAP_TIME_TD.v <= q.LAP_TIME_TD.v}
    IN  {T \in SUBSET cand :
            /\ \A c \in cars : Cardinality(T \cap Best(c)) = 1
            /\ \A r \in T : r \in Best(r.NUMBER)}

MaxPitLaps == 2
PitFlagCells == {Null, StrCell(<<"B">>), Num(1)}
PitTimeCells == {Null, StrCell(<<"2">>), StrCell(<<"1", ":", "3", "1">>)}

\* the rows of a car with laps 1..n
PitFrame(n, t, f, pt) ==
    {[NUMBER |-> 1, LAP_NUMBER |-> l, LAP_TIME |-> t[l], PIT |-> f[l],
      PIT_TIME |-> pt[l]] : l \in 1..n}

-----------------------------------------------------------------------------
(* race_tyre_analysis.infer_tyre_stints *)

\* df.groupby("CAR_ID")["DRIVER_NUMBER"].shift() != df["DRIVER_NUMBER"] for
\* the row at position i of df: the driver of the car's row before it in df
\* differs; the car's first row has no row before it and NaN differs from
\* every driver
DriverChanged(df, i) ==
    LET before == {j \in 1..(i - 1) : df[j].CAR_ID = df[i].CAR_ID}
    IN  IF before = {} THEN TRUE
        ELSE LET j == CHOOSE k \in before : \A m \in before : m <= k
             IN  df[j].DRIVER_NUMBER # df[i].DRIVER_NUMBER

\* lines 37-40: the columns PIT_LAP and DRIVER_CHANGED
WithPitLapDriverChanged(df) ==
    {[CAR_ID |-> df[i].CAR_ID, LAP_NUMBER |-> df[i].LAP_NUMBER,
      DRIVER_NUMBER |-> df[i].DRIVER_NUMBER, PIT_TIME |-> df[i].PIT_TIME,
      PIT_LAP |-> detect_pit_laps(df[i]),
      DRIVER_CHANGED |-> DriverChanged(df, i)] : i \in 1..Len(df)}

\* df.sort_values(["CAR_ID", "LAP_NUMBER"]) of rows that differ in car or lap
RECURSIVE SortByCarLap(_)
SortByCarLap(S) ==
    IF S = {} THEN <<>>
    ELSE LET first == CHOOSE r \in S : \A q \in S :
                 \/ r.CAR_ID < q.CAR_ID
                 \/ r.CAR_ID = q.CAR_ID /\ r.LAP_NUMBER <= q.LAP_NUMBER
         IN  <<first>> \o SortByCarLap(S \ {first})

PitStopThreshold == 5

\* row["PIT_LAP"] and (row["DRIVER_CHANGED"] or row["PIT_TIME"] > 5): "yes",
\* "no", or "TypeError" when the cell compared with 5 is a string
StintTest(row) ==
    IF ~row.PIT_LAP THEN "no"
    ELSE IF row.DRIVER_CHANGED THEN "yes"
    ELSE IF IsStr(row.PIT_TIME) THEN "TypeError"
    ELSE IF IsNum(row.PIT_TIME) /\ row.PIT_TIME.v > PitStopThreshold * Scale
    THEN "yes" ELSE "no"

MaxTyreLaps == 3
TyreDrivers == {1, 2}
TyrePitCells == {Null, Num(1)}
\* no pit time, 4 s, 6 s, and the string 1:31
TyrePitTimes == {Null, Num(4 * Scale), Num(6 * Scale),
                 StrCell(<<"1", ":", "3", "1">>)}

\* car 1 with laps 1..n, in ascending or descending order in the file,
\* followed by one lap of car 2 if "other"
TyreFrame(n, ascending, drv, f, pt, other) ==
    [i \in 1..n |->
        LET l == IF ascending THEN i ELSE n + 1 - i
        IN  [CAR_ID |-> 1, LAP_NUMBER |-> l, DRIVER_NUMBER |-> drv[l],
             PIT |-> f[l], PIT_TIME |-> pt[l]]]
    \o (IF other
        THEN <<[CAR_ID |-> 2, LAP_NUMBER |-> 1, DRIVER_NUMBER |-> 1,
                PIT |-> Num(1), PIT_TIME |-> Num(6 * Scale)]>>
        ELSE <<>>)

-----------------------------------------------------------------------------
(* results_table.show_results_table *)

\* sorted(df["CLASS"].dropna().unique())
ResultClasses(df) == {r.CLASS : r \in df} \ {NoClass}

\* lines 10 and 52-55: the rows of the class with ELAPSED_SECONDS, without
\* the rows whose ELAPSED_SECONDS or LAP_NUMBER is missing
ResultClassDf(df, class) ==
    {[NUMBER |-> r.NUMBER, LAP_NUMBER |-> r.LAP_NUMBER.v,
      ELAPSED |-> r.ELAPSED, ELAPSED_SECONDS |-> to_seconds(r.ELAPSED).v] :
        r \in {q \in df : /\ q.CLASS = class
                          /\ IsNum(to_seconds(q.ELAPSED))
                          /\ IsNum(q.LAP_NUMBER)}}

\* groupby("NUMBER").apply(lambda x: x.loc[x["LAP_NUMBER"].idxmax()]) of
\* rows that differ in car or lap
LastLapTimes(cdf) ==
    {r \in cdf :
        \A q \in cdf : q.NUMBER = r.NUMBER => q.LAP_NUMBER <= r.LAP_NUMBER}

\* sort_values(by=["LAP_NUMBER", "ELAPSED_SECONDS"], ascending=[False, True])
\* of one row per car: rows equal in both keep the order of the groups
ResultBefore(r, q) ==
    \/ r.LAP_NUMBER > q.LAP_NUMBER
    \/ r.LAP_NUMBER = q.LAP_NUMBER /\ r.ELAPSED_SECONDS < q.ELAPSED_SECONDS
    \/ /\ r.LAP_NUMBER = q.LAP_NUMBER
       /\ r.ELAPSED_SECONDS = q.ELAPSED_SECONDS
       /\ r.NUMBER <= q.NUMBER

RECURSIVE SortResults(_)
SortResults(S) ==
    IF S = {} THEN <<>>
    ELSE LET first == CHOOSE r \in S : \A q \in S : ResultBefore(r, q)
         IN  <<first>> \o SortResults(S \ {first})

\* f"{gap:.3f}" of a time in thousandths
Format3f(gap) ==
    LET a == IF gap < 0 THEN 0 - gap ELSE gap
    IN  (IF gap < 0 THEN <<"-">> ELSE <<>>)
        \o Decimal(a \div Scale)
        \o <<".", DigitChar((a \div 100) % 10), DigitChar((a \div 10) % 10),
             DigitChar(a % 10)>>

\* str.rstrip(c)
RECURSIVE RStripChar(_, _)
RStripChar(s, c) ==
    IF s # <<>> /\ s[Len(s)] = c THEN RStripChar(SubSeq(s, 1, Len(s) - 1), c)
    ELSE s

\* f"{int(laps_down)} lap{'s' if laps_down > 1 else ''}"
LapsText(laps_down) ==
    Decimal(laps_down) \o <<" ", "l", "a", "p">>
    \o (IF laps_down > 1 THEN <<"s">> ELSE <<>>)

LeaderInterval == <<"-">>
Down == <<" ", "d", "o", "w", "n">>
SecondsUnit == <<" ", "s">>

\* lines 89-99: the interval of the row at position i
IntervalOf(llt, i) ==
    IF i = 1 THEN LeaderInterval
    ELSE LET laps_down == llt[i - 1].LAP_NUMBER - llt[i].LAP_NUMBER
         IN  IF laps_down >= 1 THEN LapsText(laps_down)
             ELSE Format3f(llt[i].ELAPSED_SECONDS
                            - llt[i - 1].ELAPSED_SECONDS) \o SecondsUnit

\* the elapsed time of the car in place of its distance to the leader
ElapsedAsGap(row, leader_lap, leader_time) ==
    LET laps_down == leader_lap - row.LAP_NUMBER
    IN  IF laps_down >= 1 THEN LapsText(laps_down) \o Down
        ELSE RStripChar(RStripChar(Format3f(row.ELAPSED_SECONDS), "0"), ".")

\* lines 104-110
calculate_gap_to_leader(row, leader_lap, leader_time) ==
    LET laps_down == leader_lap - row.LAP_NUMBER
    IN  IF laps_down >= 1 THEN LapsText(laps_down) \o Down
        ELSE RStripChar(RStripChar(
                 Format3f(row.ELAPSED_SECONDS - leader_time), "0"), ".")

\* lines 66-112 and 152-160: the table of a class with at least one row left
DisplayDf(cdf) ==
    LET llt == SortResults(LastLapTimes(cdf))
        leader_lap == llt[1].LAP_NUMBER
        leader_time == llt[1].ELAPSED_SECONDS
    IN  [i \in 1..Len(llt) |->
            [Position |-> i, NUMBER |-> llt[i].NUMBER,
             LAP_NUMBER |-> llt[i].LAP_NUMBER, ELAPSED |-> llt[i].ELAPSED,
             interval |-> IntervalOf(llt, i),
             gap_to_leader |->
                 calculate_gap_to_leader(llt[i], leader_lap, leader_time)]]

MaxResultCars == 3
MaxResultLaps == 2
ResultClassNames == {"GT", "LMP"}
\* the ELAPSED of a lap before the last: 0:45.000
ElapsedFirst == <<"0", ":", "4", "5", ".", "0", "0", "0">>
\* the ELAPSED of the last lap: 1:30.000, 1:30.250, 1:31.000, or no time
ElapsedLast ==
    {<<"1", ":", "3", "0", ".", "0", "0", "0">>,
     <<"1", ":", "3", "0", ".", "2", "5", "0">>,
     <<"1", ":", "3", "1", ".", "0", "0", "0">>,
     Missing}

\* cars 1..n; car c has the laps 1..k[c], the last with ELAPSED e[c]
ResultFrame(n, k, e, cl) ==
    UNION {{[NUMBER |-> c, CLASS |-> cl[c], LAP_NUMBER |-> Num(l),
             ELAPSED |-> IF l = k[c] THEN e[c] ELSE ElapsedFirst] :
                l \in 1..k[c]} : c \in 1..n}

-----------------------------------------------------------------------------
(* Idle values of each group of variables *)

IdleParser == time_str = Missing /\ time_fn = "none" /\ time_ret = Null
IdleRange == laps = <<>> /\ ranges_text = Null
IdleStint ==
    /\ plot_df = {} /\ top_pct = 100 /\ car_group = <<>> /\ stint_pc = "idle"
    /\ idx = 0 /\ stint_no = 0 /\ skip_next_lap = FALSE
    /\ current_stint_idxs = <<>> /\ rows = <<>>
IdleLeader ==
    /\ leader_pc = "idle" /\ lap = 0 /\ lap_df = <<>>
    /\ prev_leader_car_id = NoneId /\ leaders = <<>>
IdleClass == class_df = {} /\ class_leader_df = Null
IdleFast ==
    /\ fr_df = {} /\ fr_top_percent = 100 /\ fr_group = <<>> /\ fr_pc = "idle"
    /\ fastest_runs = <<>>
IdleLong ==
    /\ lr_df = {} /\ lr_top_percent = 100 /\ lr_pc = "idle"
    /\ long_run_records = <<>> /\ gls_group = <<>> /\ longest_runs = <<>>

NoRun == [top_percent |-> 100, shown |-> Null]
IdlePace ==
    /\ pace_page = "none" /\ pace_df = {} /\ pace_top_percent = 100
    /\ pace_warned = FALSE /\ pace_shown = Null /\ pace_prev = NoRun

IdleTeam ==
    /\ team_class_df = {} /\ pace_selected = <<>> /\ ts_pc = "idle" /\ ts_i = 0
    /\ ts_traces = <<>> /\ summary_records = {}

IdleEvent ==
    /\ series_files = {} /\ ev_todo = {} /\ events = <<>> /\ ev_pc = "idle"

IdleFilter ==
    /\ gf_df = {} /\ apply_global_filters = FALSE /\ selected_classes = {}
    /\ selected_cars = {} /\ page = "none" /\ gf_pc = "idle" /\ gf_given = {}

IdlePit == pl_df = {} /\ pit_laps = Null /\ fastest = Null

IdleTyre ==
    /\ tyre_df = <<>> /\ tyre_rows = <<>> /\ ty_i = 0 /\ stint_id = 0
    /\ prev_car = NoneId /\ tyre_stint_ids = <<>> /\ ty_pc = "idle"

IdleResult ==
    /\ res_df = {} /\ selected_class = NoClass /\ display_df = <<>>
    /\ res_pc = "idle"

\* the pages other than g are idle
IdlePagesBut(g) ==
    /\ (IF g = "pace" THEN TRUE ELSE IdlePace)
    /\ (IF g = "team" THEN TRUE ELSE IdleTeam)
    /\ (IF g = "event" THEN TRUE ELSE IdleEvent)
    /\ (IF g = "filter" THEN TRUE ELSE IdleFilter)
    /\ (IF g = "pit" THEN TRUE ELSE IdlePit)
    /\ (IF g = "tyre" THEN TRUE ELSE IdleTyre)
    /\ (IF g = "result" THEN TRUE ELSE IdleResult)
IdlePages == IdlePagesBut("none")
IdleCore ==
    /\ IdleParser /\ IdleRange /\ IdleStint /\ IdleLeader /\ IdleClass
    /\ IdleFast /\ IdleLong
coreVars == <<parserVars, rangeVars, stintVars, leaderVars, classVars, fastVars,
              longVars>>
\* a step of page g leaves everything else alone
PagesUnchangedBut(g) ==
    /\ UNCHANGED coreVars
    /\ (IF g = "pace" THEN TRUE ELSE UNCHANGED paceVars)
    /\ (IF g = "team" THEN TRUE ELSE UNCHANGED teamVars)
    /\ (IF g = "event" THEN TRUE ELSE UNCHANGED eventVars)
    /\ (IF g = "filter" THEN TRUE ELSE UNCHANGED filterVars)
    /\ (IF g = "pit" THEN TRUE ELSE UNCHANGED pitVars)
    /\ (IF g = "tyre" THEN TRUE ELSE UNCHANGED tyreVars)
    /\ (IF g = "result" THEN TRUE ELSE UNCHANGED resultVars)

-----------------------------------------------------------------------------
(* Specification of the parsers: one call of one parser on one input *)

ParseInit ==
    /\ time_str \in TimeInputs
    /\ time_fn = "none"
    /\ time_ret = Null
    /\ IdleRange /\ IdleStint /\ IdleLeader /\ IdleClass /\ IdleFast /\ IdleLong /\ IdlePages

Call(fn, r) ==
    /\ time_fn = "none"
    /\ time_fn' = fn
    /\ time_ret' = r
    /\ UNCHANGED <<time_str>>
    /\ UNCHANGED <<rangeVars, stintVars, leaderVars, classVars, fastVars, longVars,
                pageVars>>

CallLapTimeToSeconds == Call("lap_time_to_seconds", lap_time_to_seconds(time_str))
CallToSeconds == Call("to_seconds", to_seconds(time_str))
CallParseElapsedToSeconds ==
    Call("parse_elapsed_to_seconds", parse_elapsed_to_seconds(time_str))
CallTimeToSeconds == Call("time_to_seconds", time_to_seconds(time_str))

ParseNext ==
    \/ CallLapTimeToSeconds
    \/ CallToSeconds
    \/ CallParseElapsedToSeconds
    \/ CallTimeToSeconds

vars == <<parserVars, rangeVars, stintVars, leaderVars, classVars, fastVars,
         longVars, pageVars>>

SpecParse == ParseInit /\ [][ParseNext]_vars

-----------------------------------------------------------------------------
(* C8 *)

\* a field of digits, blanks around it allowed
PlainField(f) == AllDigits(Strip(f))
\* a seconds field: digits with an optional fraction
SecField(f) ==
    LET p == Split(Strip(f), ".")
    IN  \/ AllDigits(Strip(f))
        \/ Len(p) = 2 /\ AllDigits(p[1]) /\ AllDigits(p[2])

WellFormedMS(s) ==
    /\ s # Missing
    /\ LET p == Split(s, ":") IN Len(p) = 2 /\ PlainField(p[1]) /\ SecField(p[2])
WellFormedHMS(s) ==
    /\ s # Missing
    /\ LET p == Split(s, ":")
       IN  Len(p) = 3 /\ PlainField(p[1]) /\ PlainField(p[2]) /\ SecField(p[3])
PlainSeconds(s) == s # Missing /\ Len(Split(s, ":")) = 1 /\ SecField(s)
Malformed(s) == ~(WellFormedMS(s) \/ WellFormedHMS(s) \/ PlainSeconds(s))

FieldVal(f) == NatVal(Strip(f))
SecVal(f) ==
    LET p == Split(Strip(f), ".")
    IN  IF Len(p) = 1 THEN NatVal(p[1]) * Scale
        ELSE NatVal(p[1]) * Scale + FracVal(p[2])

\* C8: every parser returns a null value for malformed, empty or missing
\* input and never raises; 'm:s' gives m*60+s and 'h:m:s' gives
\* h*3600+m*60+s.
C8_ParsersNullOnMalformed ==
    time_fn # "none" =>
        /\ time_ret.tag \in {"null", "num"}
        /\ Malformed(time_str) => IsNull(time_ret)
        /\ WellFormedMS(time_str) =>
              LET p == Split(time_str, ":")
              IN  time_ret = Num(FieldVal(p[1]) * 60 * Scale + SecVal(p[2]))
        /\ WellFormedHMS(time_str) =>
              LET p == Split(time_str, ":")
              IN  time_ret = Num(FieldVal(p[1]) * 3600 * Scale
                                 + FieldVal(p[2]) * 60 * Scale + SecVal(p[3]))

\* the parts of C8 that the parsers do satisfy
C8_NeverRaises == time_fn # "none" => time_ret.tag \in {"null", "num"}
C8_WellFormedValue ==
    time_fn # "none" =>
        /\ WellFormedMS(time_str) =>
              LET p == Split(time_str, ":")
              IN  time_ret = Num(FieldVal(p[1]) * 60 * Scale + SecVal(p[2]))
        /\ WellFormedHMS(time_str) =>
              LET p == Split(time_str, ":")
              IN  time_ret = Num(FieldVal(p[1]) * 3600 * Scale
                                 + FieldVal(p[2]) * 60 * Scale + SecVal(p[3]))
-----------------------------------------------------------------------------
(* Specification of laps_to_ranges: one call on one list *)

RangeInit ==
    /\ laps \in SeqsUpTo(RangeLapNumbers, MaxListLen)
    /\ ranges_text = Null
    /\ IdleParser /\ IdleStint /\ IdleLeader /\ IdleClass /\ IdleFast /\ IdleLong /\ IdlePages

CallLapsToRanges ==
    /\ ranges_text = Null
    /\ ranges_text' = [tag |-> "str", v |-> laps_to_ranges(laps)]
    /\ UNCHANGED <<laps>>
    /\ UNCHANGED <<parserVars, stintVars, leaderVars, classVars, fastVars, longVars,
                pageVars>>

RangeNext == CallLapsToRanges

SpecRanges == RangeInit /\ [][RangeNext]_vars

-----------------------------------------------------------------------------
(* C7 *)

\* reading the returned text back: the ranges as <<lo, hi>> pairs
DecodeRange(txt) ==
    LET p == Split(Strip(txt), Dash)
    IN  IF Len(p) = 1 THEN <<NatVal(p[1]), NatVal(p[1])>>
        ELSE <<NatVal(p[1]), NatVal(p[2])>>
DecodeRanges(txt) ==
    IF txt = <<>> THEN <<>>
    ELSE LET p == Split(txt, ",") IN [i \in 1..Len(p) |-> DecodeRange(p[i])]

Elems(s) == {s[i] : i \in 1..Len(s)}
NoDuplicates(s) == \A i, j \in 1..Len(s) : i # j => s[i] # s[j]

RangesExact(ls, txt) ==
    LET rs == DecodeRanges(txt)
        parts == IF txt = <<>> THEN <<>> ELSE Split(txt, ",")
    IN  /\ (ls = <<>>) = (txt = <<>>)
        /\ \A i \in 1..Len(rs) : rs[i][1] <= rs[i][2]
        \* ascending, disjoint and maximal: a gap of at least one lap
        /\ \A i \in 1..(Len(rs) - 1) : rs[i][2] + 1 < rs[i + 1][1]
        \* the union is the set of input laps
        /\ UNION {rs[i][1]..rs[i][2] : i \in 1..Len(rs)} = Elems(ls)
        \* a run of one lap is written as the single number
        /\ \A i \in 1..Len(rs) :
              rs[i][1] = rs[i][2] => Len(Split(parts[i], Dash)) = 1

\* C7 (as claimed): for every finite list of lap numbers the returned ranges
\* are ascending, pairwise disjoint and maximal, and their union is the set
\* of input laps.
C7_RangesExactAnyList ==
    ranges_text # Null => RangesExact(laps, ranges_text.v)

\* C7 (amended): the same for every list of distinct lap numbers, in any
\* order.
C7_RangesExactDistinct ==
    (ranges_text # Null /\ NoDuplicates(laps)) =>
        RangesExact(laps, ranges_text.v)

\* an unsorted list with a run, a single lap and a two-digit run
C7_Witness ==
    /\ ranges_text # Null
    /\ laps = <<10, 3, 1, 9>>
    /\ ranges_text.v = <<"1", ",", " ", "3", ",", " ", "9", Dash, "1", "0">>

-----------------------------------------------------------------------------
(* Specification of the stint scan of show_stint_pace_chart *)

StintInit ==
    /\ \E n \in 1..MaxStintLaps :
          \E t \in [1..n -> StintLapTimes], f \in [1..n -> StintPitFlags] :
              plot_df = StintFrame(n, t, f)
    /\ top_pct \in TopPcts
    /\ car_group = <<>>
    /\ stint_pc = "prepare"
    /\ idx = 0
    /\ stint_no = 0
    /\ skip_next_lap = FALSE
    /\ current_stint_idxs = <<>>
    /\ rows = <<>>
    /\ IdleParser /\ IdleRange /\ IdleLeader /\ IdleClass /\ IdleFast /\ IdleLong /\ IdlePages

StintOthers == UNCHANGED <<parserVars, rangeVars, leaderVars, classVars, fastVars, longVars,
                pageVars>>

\* lines 94-112: parse the lap times, drop the rows without one, sort by lap
\* number, start the scan
PrepareCar ==
    /\ stint_pc = "prepare"
    /\ car_group' = SortByLap(DropNa(WithLapTimeSec(plot_df)))
    /\ stint_no' = 1
    /\ skip_next_lap' = FALSE
    /\ current_stint_idxs' = <<>>
    /\ idx' = 1
    /\ stint_pc' = "scan"
    /\ UNCHANGED <<plot_df, top_pct, rows>>
    /\ StintOthers

\* lines 118-126: the row after a pit lap is skipped, whatever its flag
SkipOutLap ==
    /\ stint_pc = "scan" /\ idx <= Len(car_group)
    /\ skip_next_lap
    /\ skip_next_lap' = FALSE
    /\ stint_no' = stint_no + 1
    /\ current_stint_idxs' = <<>>
    /\ idx' = idx + 1
    /\ UNCHANGED <<plot_df, top_pct, car_group, stint_pc, rows>>
    /\ StintOthers

\* lines 129, 159-161
AddLap ==
    /\ stint_pc = "scan" /\ idx <= Len(car_group)
    /\ ~skip_next_lap
    /\ ~IsPitFlag(car_group[idx].PIT)
    /\ current_stint_idxs' = Append(current_stint_idxs, idx)
    /\ idx' = idx + 1
    /\ UNCHANGED <<plot_df, top_pct, car_group, stint_pc, stint_no,
                   skip_next_lap, rows>>
    /\ StintOthers

\* lines 129-158: the pit lap closes the stint
AddPitLap ==
    /\ stint_pc = "scan" /\ idx <= Len(car_group)
    /\ ~skip_next_lap
    /\ IsPitFlag(car_group[idx].PIT)
    /\ rows' = Append(rows, StintRow(car_group, Append(current_stint_idxs, idx),
                                     stint_no, top_pct))
    /\ skip_next_lap' = TRUE
    /\ current_stint_idxs' = <<>>
    /\ idx' = idx + 1
    /\ UNCHANGED <<plot_df, top_pct, car_group, stint_pc, stint_no>>
    /\ StintOthers

\* lines 163-183: the stint still open at the end of the car's rows
EndOfCar ==
    /\ stint_pc = "scan" /\ idx > Len(car_group)
    /\ rows' = IF current_stint_idxs # <<>>
               THEN Append(rows, StintRow(car_group, current_stint_idxs,
                                          stint_no, top_pct))
               ELSE rows
    /\ stint_pc' = "done"
    /\ UNCHANGED <<plot_df, top_pct, car_group, idx, stint_no, skip_next_lap,
                   current_stint_idxs>>
    /\ StintOthers

StintNext == PrepareCar \/ SkipOutLap \/ AddLap \/ AddPitLap \/ EndOfCar

SpecStint == StintInit /\ [][StintNext]_vars

-----------------------------------------------------------------------------
(* C1, C2 *)

\* the laps counted so far: those of the emitted rows and of the open stint
CountedLaps ==
    UNION {Elems(rows[i].stint_laps) : i \in 1..Len(rows)}
      \cup {car_group[current_stint_idxs[i]].LAP_NUMBER :
                i \in 1..Len(current_stint_idxs)}

\* C1: in the scan (rows visited in ascending LAP_NUMBER) a lap that
\* immediately follows a lap flagged 'B' is never counted in any stint.
C1_OutLapNeverCounted ==
    \A i \in 2..Len(car_group) :
        IsPitFlag(car_group[i - 1].PIT) =>
            car_group[i].LAP_NUMBER \notin CountedLaps

\* the flag of a lap of the car as loaded
FlagOfLap(l) == (CHOOSE r \in plot_df : r.LAP_NUMBER = l).PIT
PitInLaps == {r.LAP_NUMBER : r \in {q \in plot_df : IsPitFlag(q.PIT)}}

\* C2: every emitted stint is bounded by pit-in events: a lap flagged 'B' is
\* only ever the last lap of a stint, and no stint has laps on both sides of
\* one of the car's pit-in laps, whatever the LAP_TIME values are.
C2_StintsBoundedByPitIn ==
    \A i \in 1..Len(rows) :
        LET sl == rows[i].stint_laps IN
        /\ \A k \in 1..(Len(sl) - 1) : sl[k] \notin PitInLaps
        /\ \A b \in PitInLaps :
              ~(\E x, y \in Elems(sl) : x < b /\ b < y)

-----------------------------------------------------------------------------
(* Specification of get_overall_leader_by_lap.  The rows of a lap are read  *)
(* when the loop reaches the lap: an iteration reads no other rows.         *)

LeaderInit ==
    /\ leader_pc = "for"
    /\ lap = 0
    /\ lap_df = <<>>
    /\ prev_leader_car_id = NoneId
    /\ leaders = <<>>
    /\ IdleParser /\ IdleRange /\ IdleStint /\ IdleClass /\ IdleFast /\ IdleLong /\ IdlePages

LeaderOthers == UNCHANGED <<parserVars, rangeVars, stintVars, classVars, fastVars, longVars,
                pageVars>>

\* line 101: the next lap of the data, or the end of the loop
ForLap ==
    /\ leader_pc \in {"for", "picked"}
    /\ lap < MaxLaps
    /\ lap' = lap + 1
    /\ lap_df' = <<>>
    /\ leader_pc' = "body"
    /\ UNCHANGED <<prev_leader_car_id, leaders>>
    /\ LeaderOthers

\* lines 90-95 and 102: the rows of the lap, in the order of the sort
SelectLap ==
    /\ leader_pc = "body"
    /\ \E present \in (SUBSET Cars) \ {{}} :
          \E h \in [present -> HourStrs], e \in [present -> Elapseds],
             p \in [present -> PitValues], fl \in LapFlagPatterns :
              lap_df' \in SortedOrders(WithHourDt(LapFrame(present, h, e, p, fl)))
    /\ leader_pc' = "select"
    /\ UNCHANGED <<lap, prev_leader_car_id, leaders>>
    /\ LeaderOthers

\* lines 105-123
PickLeader ==
    /\ leader_pc = "select"
    /\ LET leader_row == LeaderRow(lap_df, prev_leader_car_id)
       IN  /\ leaders' = Append(leaders, [LAP_NUMBER |-> lap,
                                          CAR_ID |-> leader_row.CAR_ID])
           /\ prev_leader_car_id' = leader_row.CAR_ID
    /\ leader_pc' = "picked"
    /\ UNCHANGED <<lap, lap_df>>
    /\ LeaderOthers

\* lines 125-126
ReturnLeaders ==
    /\ leader_pc \in {"for", "picked"}
    /\ lap >= MaxLaps
    /\ leader_pc' = "done"
    /\ UNCHANGED <<lap, lap_df, prev_leader_car_id, leaders>>
    /\ LeaderOthers

LeaderNext == ForLap \/ SelectLap \/ PickLeader \/ ReturnLeaders

SpecLeader == LeaderInit /\ [][LeaderNext]_vars

-----------------------------------------------------------------------------
(* C3, C4, C5 *)

Picked == leader_pc = "picked"
\* the leader appended for the current lap, and the one of the lap before
CurLeader == leaders[Len(leaders)].CAR_ID
HasPrevLeader == Len(leaders) >= 2
PrevLeader == leaders[Len(leaders) - 1].CAR_ID
LapRows == {lap_df[i] : i \in 1..Len(lap_df)}
NonPitRows == {r \in LapRows : r.PIT # <<"B">>}
\* the lap is under full-course yellow: its flag values are all 'FCY'
LapIsFCY == {r.FLAG_AT_FL : r \in LapRows} \ {NoFlag} = {"FCY"}
PrevLeaderEligible ==
    HasPrevLeader /\ \E r \in NonPitRows : r.CAR_ID = PrevLeader

\* r is ahead of q: an earlier HOUR; with equal or two missing HOURs, a
\* smaller or equal ELAPSED; a record without HOUR is behind one with HOUR
Ahead(r, q) ==
    IF IsNull(r.HOUR_DT) /\ IsNull(q.HOUR_DT) THEN r.ELAPSED.v <= q.ELAPSED.v
    ELSE IF IsNull(q.HOUR_DT) THEN TRUE
    ELSE IF IsNull(r.HOUR_DT) THEN FALSE
    ELSE \/ r.HOUR_DT.v < q.HOUR_DT.v
         \/ r.HOUR_DT.v = q.HOUR_DT.v /\ r.ELAPSED.v <= q.ELAPSED.v

\* C3: on an FCY lap, if the car that led the previous lap has a record on
\* this lap that is not flagged 'B', that car leads this lap too, whatever
\* the HOUR / ELAPSED order of the lap's records.
C3_LeaderCarriedUnderFCY ==
    (Picked /\ LapIsFCY /\ PrevLeaderEligible) => CurLeader = PrevLeader

\* an FCY lap on which another car not in the pit is strictly ahead of the
\* previous leader, who keeps the lead
C3_Witness ==
    /\ Picked /\ LapIsFCY /\ PrevLeaderEligible
    /\ CurLeader = PrevLeader
    /\ \E r, q \in NonPitRows :
          r.CAR_ID # PrevLeader /\ q.CAR_ID = PrevLeader /\ ~Ahead(q, r)

C5_LeaderNeverInPit ==
    Picked => \A r \in LapRows : r.CAR_ID = CurLeader => r.PIT # <<"B">>

\* C5 (amended): the leader of a lap has a record flagged 'B' on that lap
\* only when every record of the lap is flagged 'B'.
C5_LeaderInPitOnlyIfAllInPit ==
    Picked =>
        \A r \in LapRows :
            (r.CAR_ID = CurLeader /\ r.PIT = <<"B">>) => NonPitRows = {}

\* an FCY lap on which the previous leader crosses the line in the pit, is
\* first in the order of the lap, and another car takes the lead
C5_Witness ==
    /\ Picked /\ Len(lap_df) >= 2
    /\ lap_df[1].PIT = <<"B">>
    /\ lap_df[1].CAR_ID # CurLeader
    /\ LapIsFCY /\ HasPrevLeader /\ PrevLeader = lap_df[1].CAR_ID

-----------------------------------------------------------------------------
(* Specification of get_class_leader_by_lap: one call on one frame *)

ClassInit ==
    /\ \E cells \in ClassCellSets :
          \E k \in [cells -> HourElapsedPairs], p \in [cells -> PitValues],
             d \in DriverPatterns :
              class_df = ClassFrame(cells, k, p, d)
    /\ class_leader_df = Null
    /\ IdleParser /\ IdleRange /\ IdleStint /\ IdleLeader /\ IdleFast /\ IdleLong /\ IdlePages

CallGetClassLeaderByLap ==
    /\ class_leader_df = Null
    /\ \E q \in ClassSortedOrders(WithHourDtLap(class_df)) :
          class_leader_df' = [tag |-> "df", v |-> GroupFirst(q)]
    /\ UNCHANGED <<class_df>>
    /\ UNCHANGED <<parserVars, rangeVars, stintVars, leaderVars, fastVars, longVars,
                pageVars>>

ClassNext == CallGetClassLeaderByLap

SpecClassLeader == ClassInit /\ [][ClassNext]_vars

-----------------------------------------------------------------------------
(* C6 *)

ClassRows == WithHourDtLap(class_df)
GroupOf(rs, l, c) == {r \in rs : r.LAP_NUMBER = l /\ r.CLASS = c}
Classes == {ClassOf(c) : c \in Cars}
Returned == {class_leader_df.v[i] : i \in 1..Len(class_leader_df.v)}
ReturnedFor(out, l, c) == {o \in out : o.LAP_NUMBER = l /\ o.CLASS = c}

\* C6: for every (LAP_NUMBER, CLASS) pair with at least one record there is
\* exactly one leader, the car of that class ahead of all others of the class
\* on that lap (earliest HOUR, then ELAPSED), with no carry-forward under FCY
\* and no exclusion of the cars in the pit; no other pair has a leader.
C6_ClassLeaderIsEarliest ==
    class_leader_df # Null =>
        LET rs == ClassRows
            out == Returned
        IN  /\ Len(class_leader_df.v) = Cardinality(out)
            /\ \A l \in ClassLapNumbers, c \in Classes :
                  LET g == GroupOf(rs, l, c)
                      o == ReturnedFor(out, l, c)
                  IN  IF g = {} THEN o = {}
                      ELSE /\ Cardinality(o) = 1
                           /\ \A x \in o :
                                 \E r \in g :
                                     /\ r.CAR_ID = x.CAR_ID
                                     /\ \A q \in g : Ahead(r, q)

\* under FCY the class leader of lap 1 is on lap 2 and not in the pit, yet
\* the leader of lap 2 is another car, one that crosses the line in the pit
C6_Witness ==
    /\ class_leader_df # Null
    /\ \E o1, o2 \in Returned :
          /\ o1.LAP_NUMBER = 1 /\ o2.LAP_NUMBER = 2 /\ o1.CLASS = o2.CLASS
          /\ o1.CAR_ID # o2.CAR_ID
          /\ \E r, q \in GroupOf(ClassRows, 2, o2.CLASS) :
                /\ r.CAR_ID = o1.CAR_ID /\ r.PIT # <<"B">>
                /\ q.CAR_ID = o2.CAR_ID /\ q.PIT = <<"B">>
                /\ q.HOUR_DT = r.HOUR_DT /\ q.ELAPSED.v < r.ELAPSED.v

-----------------------------------------------------------------------------
(* Specification of show_practice_fastest_runs for one car *)

FastInit ==
    /\ \E n \in 1..MaxRunLaps :
          \E change \in 0..n, fastFirst \in BOOLEAN,
             pits \in {P \in SUBSET (1..n) : Cardinality(P) <= MaxPits} :
              fr_df = RunFrame(n, change, fastFirst, pits)
    /\ fr_top_percent \in FastTopPercents
    /\ fr_group = <<>>
    /\ fr_pc = "filter"
    /\ fastest_runs = <<>>
    /\ IdleParser /\ IdleRange /\ IdleStint /\ IdleLeader /\ IdleClass /\ IdleLong /\ IdlePages

FastOthers ==
    UNCHANGED <<parserVars, rangeVars, stintVars, leaderVars, classVars,
                longVars, pageVars>>

\* lines 46-73: the lap times, the top-percentage filter, the sort by lap
FastFilter ==
    /\ fr_pc = "filter"
    /\ \E K \in TopPercentKept(DropNaSeconds(WithLapTimeSeconds(fr_df)),
                               fr_top_percent) :
          fr_group' = SortByLap(K)
    /\ fr_pc' = "scan"
    /\ UNCHANGED <<fr_df, fr_top_percent, fastest_runs>>
    /\ FastOthers

\* lines 75-134: the scan of the car and its row, if any
FastScan ==
    /\ fr_pc = "scan"
    /\ fastest_runs' = FastestRunRows(fr_group)
    /\ fr_pc' = "done"
    /\ UNCHANGED <<fr_df, fr_top_percent, fr_group>>
    /\ FastOthers

FastNext == FastFilter \/ FastScan

SpecFastestRuns == FastInit /\ [][FastNext]_vars

-----------------------------------------------------------------------------
(* C9 *)

\* the no-pit stints of a car: the runs of laps between pit stops, a pit
\* stop being a lap flagged 'B' together with the lap after it
RECURSIVE StintsFrom(_, _, _, _)
StintsFrom(group, i, cur, skip) ==
    IF i > Len(group) THEN (IF cur = <<>> THEN {} ELSE {cur})
    ELSE IF skip THEN StintsFrom(group, i + 1, cur, FALSE)
    ELSE IF IsPitFlag(group[i].PIT)
    THEN (IF cur = <<>> THEN {} ELSE {cur})
           \cup StintsFrom(group, i + 1, <<>>, TRUE)
    ELSE StintsFrom(group, i + 1, Append(cur, group[i]), FALSE)
NoPitStints(group) == StintsFrom(group, 1, <<>>, FALSE)
LongStints(group) == {st \in NoPitStints(group) : Len(st) >= MinStintLaps}

\* C9: the car's no-pit stint with the lowest average among its stints of at
\* least 7 laps is reported: a car with such a stint is reported, and no
\* reported run has fewer than 7 laps.
C9_FastestLongStintReported ==
    fr_pc = "done" =>
        LET long == LongStints(fr_group) IN
        /\ \A i \in 1..Len(fastest_runs) :
              fastest_runs[i].Stint_Length >= MinStintLaps
        /\ long # {} =>
              /\ Len(fastest_runs) = 1
              /\ \E st \in long :
                    /\ fastest_runs[1].Lap_Numbers = LapNumbersOf(st)
                    /\ \A other \in long : ~MeanLT(MeanOf(other), MeanOf(st))

\* what the page does report
C9_ReportedOnlyIfFastestOfAllIsLong ==
    fr_pc = "done" =>
        /\ \A i \in 1..Len(fastest_runs) :
              fastest_runs[i].Stint_Length >= MinStintLaps
        /\ Len(fastest_runs) = 1 =>
              \E st \in NoPitStints(fr_group) :
                  /\ fastest_runs[1].Lap_Numbers = LapNumbersOf(st)
                  /\ \A other \in NoPitStints(fr_group) :
                        ~MeanLT(MeanOf(other), MeanOf(st))

-----------------------------------------------------------------------------
(* Specification of the long-run pages for one car: show_practice_long_runs *)
(* and then get_longest_stints, on the same rows and percentage            *)

LongInit ==
    /\ \E n \in 1..MaxLongLaps :
          \E a \in 1..n, t \in [1..n -> LongLapTimes],
             f \in [1..n -> PitValues] :
              lr_df = LongFrame(n, a, t, f)
    /\ lr_top_percent \in LongTopPercents
    /\ lr_pc = "page"
    /\ long_run_records = <<>>
    /\ gls_group = <<>>
    /\ longest_runs = <<>>
    /\ IdleParser /\ IdleRange /\ IdleStint /\ IdleLeader /\ IdleClass /\ IdleFast /\ IdlePages

LongOthers ==
    UNCHANGED <<parserVars, rangeVars, stintVars, leaderVars, classVars,
                fastVars, pageVars>>

\* practice_long_runs.py lines 44-143: the runs are cut from all the rows
\* with a lap time; the top-percentage filter feeds the pace only
ShowPracticeLongRuns ==
    /\ lr_pc = "page"
    /\ long_run_records' =
          LongRunRecords(SortBySessionLap(DropNaSeconds(WithLapTimeSeconds(lr_df))))
    /\ lr_pc' = "stints"
    /\ UNCHANGED <<lr_df, lr_top_percent, gls_group, longest_runs>>
    /\ LongOthers

\* practice_analysis.py lines 42-117: the stints are cut from the rows the
\* top-percentage filter keeps
GetLongestStints ==
    /\ lr_pc = "stints"
    /\ \E K \in TopPercentKept(DropNaSeconds(WithLapTimeSeconds(lr_df)),
                               lr_top_percent) :
          /\ gls_group' = SortBySessionLap(K)
          /\ longest_runs' = LongestRuns(SortBySessionLap(K))
    /\ lr_pc' = "done"
    /\ UNCHANGED <<lr_df, lr_top_percent, long_run_records>>
    /\ LongOthers

LongNext == ShowPracticeLongRuns \/ GetLongestStints

SpecLongRuns == LongInit /\ [][LongNext]_vars

-----------------------------------------------------------------------------
(* C10 *)

\* the flag of the car's lap <<session, lap>>, blank if there is no such lap
LongFlagOf(sl) ==
    IF \E r \in lr_df : r.PRACTICE_SESSION = sl[1] /\ r.LAP_NUMBER = sl[2]
    THEN (CHOOSE r \in lr_df :
              r.PRACTICE_SESSION = sl[1] /\ r.LAP_NUMBER = sl[2]).PIT
    ELSE <<>>
\* neither a lap flagged 'B' nor the lap after one
CleanLap(sl) ==
    /\ LongFlagOf(sl) # <<"B">>
    /\ LongFlagOf(<<sl[1], sl[2] - 1>>) # <<"B">>

\* the runs of a sequence of rows: cut at each lap flagged 'B' and the row
\* after it
RECURSIVE RunsFrom(_, _, _, _)
RunsFrom(group, i, cur, skip) ==
    IF i > Len(group) THEN (IF cur = <<>> THEN <<>> ELSE <<cur>>)
    ELSE IF skip THEN RunsFrom(group, i + 1, cur, FALSE)
    ELSE IF group[i].PIT = <<"B">>
    THEN (IF cur = <<>> THEN <<>> ELSE <<cur>>)
           \o RunsFrom(group, i + 1, <<>>, TRUE)
    ELSE RunsFrom(group, i + 1, Append(cur, group[i]), FALSE)

\* out is empty if there is no run, and else the earliest run of the greatest
\* length
IsEarliestLongest(laps_out, group) ==
    LET rs == RunsFrom(group, 1, <<>>, FALSE)
    IN  IF rs = <<>> THEN laps_out = <<>>
        ELSE /\ Len(laps_out) = 1
             /\ \E k \in 1..Len(rs) :
                   /\ laps_out[1] = SessionLapsOf(rs[k])
                   /\ \A j \in 1..Len(rs) : Len(rs[j]) <= Len(rs[k])
                   /\ \A j \in 1..(k - 1) : Len(rs[j]) < Len(rs[k])

AllRowsByLap == SortBySessionLap(DropNaSeconds(WithLapTimeSeconds(lr_df)))
PageRuns == [i \in 1..Len(long_run_records) |-> long_run_records[i].LAPS]
StintRuns == [i \in 1..Len(longest_runs) |-> longest_runs[i].LAPS]

\* C10: for every percentage from 20 to 100, both computations report a run
\* of maximum length among the car's runs (the earliest on ties), and the
\* reported run has neither a lap flagged 'B' nor the lap right after one.
C10_LongestRunIsClean ==
    /\ lr_pc \in {"stints", "done"} =>
          /\ IsEarliestLongest(PageRuns, AllRowsByLap)
          /\ \A i \in 1..Len(PageRuns) : \A k \in 1..Len(PageRuns[i]) :
                CleanLap(PageRuns[i][k])
    /\ lr_pc = "done" =>
          /\ IsEarliestLongest(StintRuns, gls_group)
          /\ \A i \in 1..Len(StintRuns) : \A k \in 1..Len(StintRuns[i]) :
                CleanLap(StintRuns[i][k])

\* the part of C10 that holds: the earliest run of the greatest length among
\* the runs of the rows each computation scans
C10_EarliestLongestOfScannedRows ==
    /\ lr_pc \in {"stints", "done"} => IsEarliestLongest(PageRuns, AllRowsByLap)
    /\ lr_pc = "done" => IsEarliestLongest(StintRuns, gls_group)

-----------------------------------------------------------------------------
(* The runs reported by the practice long-run scans *)

\* LAPS is a sequence of <<session, lap>>: the laps follow one another by 1
\* and are all of the given session
ContiguousInSession(run_laps, session) ==
    /\ \A i \in 1..Len(run_laps) : run_laps[i][1] = session
    /\ \A i \in 1..(Len(run_laps) - 1) : run_laps[i + 1][2] = run_laps[i][2] + 1

\* C11: every run reported by show_practice_long_runs and by
\* get_longest_stints has consecutive lap numbers, and all its laps are of
\* the practice session reported for the run
C11_RunsContiguousOneSession ==
    /\ \A i \in 1..Len(long_run_records) :
          ContiguousInSession(long_run_records[i].LAPS,
                              long_run_records[i].SESSION)
    /\ \A i \in 1..Len(longest_runs) :
          ContiguousInSession(longest_runs[i].LAPS, longest_runs[i].Session)

-----------------------------------------------------------------------------
(* Specification of the pace charts: a page is run again each time the     *)
(* user moves its top-percentage control                                   *)

PaceInit ==
    /\ pace_page \in PacePages
    /\ \E n \in 0..MaxPaceLaps : \E t \in [1..n -> PaceLapTimes] :
          \E m \in 0..1 : pace_df = PaceFrame(n, t, m)
    /\ pace_top_percent = 100
    /\ pace_warned = FALSE
    /\ pace_shown = Null
    /\ pace_prev = NoRun
    /\ IdleCore /\ IdlePagesBut("pace")

\* one run of the page: the control has the value p
PaceRun(p, warned, shown) ==
    /\ pace_top_percent' = p
    /\ pace_warned' = warned
    /\ pace_shown' = shown
    /\ pace_prev' = [top_percent |-> pace_top_percent, shown |-> pace_shown]
    /\ UNCHANGED <<pace_page, pace_df>>
    /\ PagesUnchangedBut("pace")

\* app.main, lines 58-70, and show_pace_chart: at 0% st.stop() ends the run
AppMain ==
    /\ pace_page = "app"
    /\ \E p \in PercentageOptions :
          IF p = 0 THEN PaceRun(0, TRUE, Null)
          ELSE \E shown \in filter_top_percent_laps(
                                GroupsByNumber(ValidLaps(pace_df)), p) :
                   PaceRun(p, FALSE, shown)

\* show_practice_pace_chart: at 0% the function returns
ShowPracticePaceChart ==
    /\ pace_page = "practice_pace_chart"
    /\ \E p \in PercentageOptions :
          IF p = 0 THEN PaceRun(0, TRUE, Null)
          ELSE \E shown \in filter_top_percent_laps(
                                GroupsByNumber(ValidLaps(pace_df)), p) :
                   PaceRun(p, FALSE, shown)

\* show_driver_pace_chart: without a class the function returns before the
\* slider; at 0% it warns and goes on
ShowDriverPaceChart ==
    /\ pace_page = "driver_pace_chart"
    /\ IF pace_df = {} THEN PaceRun(pace_top_percent, FALSE, Null)
       ELSE \E p \in DriverPercents :
                \E shown \in filter_top_percent_laps(
                                 GroupsByNumberDriver(ValidLaps(pace_df)), p) :
                    PaceRun(p, p = 0, shown)

\* streamlit_app: the sidebar slider; at 0% the script warns and goes on to
\* the renderers of the selected page, which get df
StreamlitAppPage ==
    /\ pace_page = "streamlit_app"
    /\ \E p \in PercentageOptions :
          PaceRun(p, p = 0, [tag |-> "pages", rows |-> pace_df])

PaceNext ==
    \/ AppMain
    \/ ShowPracticePaceChart
    \/ ShowDriverPaceChart
    \/ StreamlitAppPage

SpecPace == PaceInit /\ [][PaceNext]_vars

\* max(1, floor(n * p / 100))
FloorKeep(n, p) == IF (n * p) \div 100 >= 1 THEN (n * p) \div 100 ELSE 1

\* how many rows of car c in S have the lap time v
TimesOf(S, c, v) ==
    Cardinality({r \in S : r.NUMBER = c /\ r.LAP_TIME_SECONDS.v = v})

\* the lap times kept in A are kept in B, counted with their multiplicity
KeptWithin(A, B) ==
    \A r \in A :
        TimesOf(A, r.NUMBER, r.LAP_TIME_SECONDS.v)
            <= TimesOf(B, r.NUMBER, r.LAP_TIME_SECONDS.v)

PerCarPage == pace_page \in {"app", "practice_pace_chart"}

\* C12: on the per-car pace charts, at p in {20..100} each car with n >= 1
\* valid laps keeps exactly max(1, floor(n*p/100)) of them, no kept lap is
\* slower than a discarded one, at p = 100 all are kept, and what is kept at
\* a smaller p is kept at a larger p
C12_TopPercentKeepsFloor ==
    (PerCarPage /\ pace_shown.tag = "chart") =>
        LET valid == ValidLaps(pace_df)
            kept == pace_shown.rows
            p == pace_top_percent
        IN  /\ p \in PercentageOptions \ {0}
            /\ kept \subseteq valid
            /\ \A c \in {r.NUMBER : r \in valid} :
                  LET valid_c == {r \in valid : r.NUMBER = c}
                      kept_c == {r \in kept : r.NUMBER = c}
                  IN  /\ Cardinality(kept_c) = FloorKeep(Cardinality(valid_c), p)
                      /\ \A a \in kept_c, b \in valid_c \ kept_c :
                            a.LAP_TIME_SECONDS.v <= b.LAP_TIME_SECONDS.v
                      /\ p = 100 => kept_c = valid_c
            /\ pace_prev.shown.tag = "chart" =>
                  /\ pace_prev.top_percent <= p
                        => KeptWithin(pace_prev.shown.rows, kept)
                  /\ pace_prev.top_percent >= p
                        => KeptWithin(kept, pace_prev.shown.rows)

\* a car with 4 valid laps of two different times shown at 60% after 40%:
\* 2 laps kept after 1
C12_Witness ==
    /\ PerCarPage /\ pace_shown.tag = "chart" /\ pace_prev.shown.tag = "chart"
    /\ pace_top_percent = 60 /\ pace_prev.top_percent = 40
    /\ Cardinality({r \in ValidLaps(pace_df) : r.NUMBER = 1}) = 4
    /\ Cardinality({r.LAP_TIME_SECONDS : r \in ValidLaps(pace_df)}) = 2
    /\ Cardinality({r \in pace_shown.rows : r.NUMBER = 1}) = 2
    /\ Cardinality({r \in pace_prev.shown.rows : r.NUMBER = 1}) = 1

\* C14: on every page with a top-percentage control, a run that gave the 0%
\* warning rendered nothing
C14_ZeroPercentShowsNothing ==
    (pace_top_percent = 0 /\ pace_warned) => pace_shown = Null

-----------------------------------------------------------------------------
(* The average of the top laps of a stint *)

\* max(1, ceil(L * p / 100)): the least n >= 1 with n / L >= p / 100
CeilKeep(L, p) ==
    CHOOSE n \in 1..L : 100 * n >= L * p /\ (n = 1 \/ 100 * (n - 1) < L * p)

\* means <<sum, count>> compared as fractions
MeanLE(a, b) == a[1] * b[2] <= b[1] * a[2]

\* the positions in car_group of the laps of a summary row
IdxsOfRow(row) ==
    [i \in 1..Len(row.stint_laps) |->
        CHOOSE k \in 1..Len(car_group) :
            car_group[k].LAP_NUMBER = row.stint_laps[i]]

\* C13: AVG_TOP_LAP_SEC of a stint of L laps at percentage p is the mean of
\* its n fastest laps, n = max(1, ceil(L*p/100)), 1 <= n <= L; at 100 it is
\* the mean of all the laps; and it does not decrease when p grows
C13_AvgTopIsMeanOfCeil ==
    \A i \in 1..Len(rows) :
        LET row == rows[i]
            idxs == IdxsOfRow(row)
            L == row.STINT_LAPS
            times == Sorted([k \in 1..Len(idxs) |->
                                car_group[idxs[k]].LAP_TIME_SEC.v])
            n == CeilKeep(L, top_pct)
        IN  /\ L >= 1 /\ L = Len(idxs)
            /\ 1 <= n /\ n <= L
            /\ row.AVG_TOP_LAP_SEC = <<SumSeq(SubSeq(times, 1, n)), n>>
            /\ top_pct = 100 => row.AVG_TOP_LAP_SEC = <<SumSeq(times), L>>
            /\ \A q \in 1..100 :
                  LET other == StintRow(car_group, idxs, row.STINT_NUMBER, q)
                  IN  /\ q <= top_pct
                         => MeanLE(other.AVG_TOP_LAP_SEC, row.AVG_TOP_LAP_SEC)
                      /\ q >= top_pct
                         => MeanLE(row.AVG_TOP_LAP_SEC, other.AVG_TOP_LAP_SEC)

\* a stint of 3 laps of two different times at 50%: the 2 fastest are kept
\* and the slowest is not
C13_Witness ==
    /\ top_pct = 50
    /\ \E i \in 1..Len(rows) :
          /\ rows[i].STINT_LAPS = 3
          /\ rows[i].AVG_TOP_LAP_SEC[2] = 2
          /\ rows[i].AVG_TOP_LAP_SEC[1] < 2 * 95 * Scale

-----------------------------------------------------------------------------
(* Specification of show_team_season_comparison for one race file *)

TeamInit ==
    /\ \E n \in 0..MaxTeamLaps : \E a \in 0..n :
          \E t \in [1..n -> TeamLapTimes] : team_class_df = TeamFrame(n, a, t)
    /\ pace_selected \in PaceSelections
    /\ ts_pc = "race"
    /\ ts_i = 0
    /\ ts_traces = <<>>
    /\ summary_records = {}
    /\ IdleCore /\ IdlePagesBut("team")

\* lines 50-52: nothing ticked
WarnNoPercentage ==
    /\ ts_pc = "race" /\ pace_selected = <<>>
    /\ ts_pc' = "done"
    /\ UNCHANGED <<team_class_df, pace_selected, ts_i, ts_traces,
                   summary_records>>
    /\ PagesUnchangedBut("team")

\* lines 76-78: the team has no row in this race
SkipRace ==
    /\ ts_pc = "race" /\ pace_selected # <<>> /\ team_class_df = {}
    /\ ts_pc' = "summary"
    /\ UNCHANGED <<team_class_df, pace_selected, ts_i, ts_traces,
                   summary_records>>
    /\ PagesUnchangedBut("team")

\* lines 80-91: the lap times in seconds, the figure
StartFigure ==
    /\ ts_pc = "race" /\ pace_selected # <<>> /\ team_class_df # {}
    /\ ts_pc' = "traces"
    /\ ts_i' = 1
    /\ UNCHANGED <<team_class_df, pace_selected, ts_traces, summary_records>>
    /\ PagesUnchangedBut("team")

\* lines 94-133: the trace of one percentage
AddTrace ==
    /\ ts_pc = "traces" /\ ts_i <= Len(pace_selected)
    /\ LET pct == pace_selected[ts_i]
           driver_avgs == DriverAvgs(TeamValidLaps(team_class_df), pct)
       IN  ts_traces' = IF driver_avgs = {} THEN ts_traces
                        ELSE Append(ts_traces,
                                    [name |-> pct, bars |-> driver_avgs])
    /\ ts_i' = ts_i + 1
    /\ UNCHANGED <<team_class_df, pace_selected, ts_pc, summary_records>>
    /\ PagesUnchangedBut("team")

\* lines 135-155: the chart of the race
PlotChart ==
    /\ ts_pc = "traces" /\ ts_i > Len(pace_selected)
    /\ ts_pc' = "summary"
    /\ UNCHANGED <<team_class_df, pace_selected, ts_i, ts_traces,
                   summary_records>>
    /\ PagesUnchangedBut("team")

\* lines 164-208: the records of the season summary for this race
SeasonSummary ==
    /\ ts_pc = "summary"
    /\ summary_records' =
          UNION {{[Driver |-> b.DRIVER_NAME, AverageLapTime |-> b.LAP_TIME_SEC,
                   PacePercent |-> pace_selected[i]] :
                     b \in DriverAvgs(TeamValidLaps(team_class_df),
                                      pace_selected[i])} :
                 i \in 1..Len(pace_selected)}
    /\ ts_pc' = "done"
    /\ UNCHANGED <<team_class_df, pace_selected, ts_i, ts_traces>>
    /\ PagesUnchangedBut("team")

TeamNext ==
    \/ WarnNoPercentage
    \/ SkipRace
    \/ StartFigure
    \/ AddTrace
    \/ PlotChart
    \/ SeasonSummary

SpecTeamSeason == TeamInit /\ [][TeamNext]_vars

\* the bar of driver drv at percentage p is the mean of the k fastest of the
\* driver's own valid laps, with k the p% of their number rounded down or up
\* and at least 1
OwnTopMean(bar, p) ==
    LET own == {r \in TeamValidLaps(team_class_df) :
                   r.DRIVER_NAME = bar.DRIVER_NAME}
        n == Cardinality(own)
    IN  /\ n >= 1
        /\ \E k \in {FloorKeep(n, p), CeilKeep(n, p)} :
              /\ bar.LAP_TIME_SEC[2] >= 1
              /\ bar.LAP_TIME_SEC[1] * k
                    = SumOfFastest(own, k) * bar.LAP_TIME_SEC[2]

\* C15: every bar of the trace 'Top p%' is the mean of the fastest p% of the
\* driver's own valid laps in the race, and every driver with a valid lap
\* has a bar
C15_BarIsTopPercentOfOwnLaps ==
    \A i \in 1..Len(ts_traces) :
        /\ \A bar \in ts_traces[i].bars : OwnTopMean(bar, ts_traces[i].name)
        /\ {bar.DRIVER_NAME : bar \in ts_traces[i].bars}
              = {r.DRIVER_NAME : r \in TeamValidLaps(team_class_df)}

\* what the code computes: the mean of the driver's fastest laps, as many as
\* p% of the laps of the whole team
C15_BarIsTopCountOfTeamLaps ==
    \A i \in 1..Len(ts_traces) : \A bar \in ts_traces[i].bars :
        LET valid == TeamValidLaps(team_class_df)
            own == {r \in valid : r.DRIVER_NAME = bar.DRIVER_NAME}
            k == Min(FloorKeep(Cardinality(valid), ts_traces[i].name),
                     Cardinality(own))
        IN  bar.LAP_TIME_SEC = <<SumOfFastest(own, k), k>>

-----------------------------------------------------------------------------
(* Specification of get_event_names: the loop over os.listdir, which lists  *)
(* the directory in no particular order                                    *)

EventInit ==
    /\ series_files \in {D \in SUBSET FileNames : Cardinality(D) <= MaxFiles}
    /\ ev_todo = series_files
    /\ events = <<>>
    /\ ev_pc = "loop"
    /\ IdleCore /\ IdlePagesBut("event")

\* lines 26-40: one iteration
VisitNextFile ==
    /\ ev_pc = "loop"
    /\ \E f \in ev_todo :
          /\ events' = VisitFile(events, f)
          /\ ev_todo' = ev_todo \ {f}
    /\ UNCHANGED <<series_files, ev_pc>>
    /\ PagesUnchangedBut("event")

\* line 41
ReturnEvents ==
    /\ ev_pc = "loop" /\ ev_todo = {}
    /\ ev_pc' = "returned"
    /\ UNCHANGED <<series_files, ev_todo, events>>
    /\ PagesUnchangedBut("event")

EventNext == VisitNextFile \/ ReturnEvents

SpecEvents == EventInit /\ [][EventNext]_vars

IsCsv(f) == EndsWith(Lower(f), DotCsv)

\* f is <base>_practice<N>.csv or <base>_session<N>.csv with a base of at
\* least one character, whatever the case of the letters
IsSessionFile(f, base) ==
    /\ base # <<>> /\ Len(f) > Len(base)
    /\ SubSeq(f, 1, Len(base)) = base
    /\ IsSessionTail(SubSeq(f, Len(base) + 1, Len(f)))
SessionBases(f) == {SubSeq(f, 1, i) : i \in {k \in 1..Len(f) :
                        IsSessionFile(f, SubSeq(f, 1, k))}}

\* the name without its extension
Stem(f) == SubSeq(f, 1, Len(f) - Len(DotCsv))

\* how many times the file is placed in the dict
TimesPlaced(f) ==
    Cardinality({k \in DOMAIN events : events[k].race_file = f})
    + Cardinality({<<k, i>> \in (DOMAIN events) \X (1..MaxFiles) :
          i <= Len(events[k].sessions) /\ events[k].sessions[i] = f})

PlacedAsClaimed(f) ==
    /\ TimesPlaced(f) = 1
    /\ IF SessionBases(f) # {}
       THEN \E base \in SessionBases(f) :
               /\ Lower(base) \in DOMAIN events
               /\ \E i \in 1..Len(events[Lower(base)].sessions) :
                     events[Lower(base)].sessions[i] = f
       ELSE /\ Lower(Stem(f)) \in DOMAIN events
            /\ events[Lower(Stem(f))].race_file = f

\* C16 as stated: every '.csv' file of the directory is in exactly one
\* event, a session file in the sessions of its base and any other CSV as
\* the race file of the event of its name
C16_EveryCsvInOneEvent ==
    ev_pc = "returned" => \A f \in series_files : IsCsv(f) => PlacedAsClaimed(f)

\* the race CSVs of the directory have different lower-cased names, and no
\* file is named just '.csv'
DistinctRaceNames ==
    /\ DotCsv \notin series_files
    /\ \A f, g \in series_files :
          (/\ IsCsv(f) /\ IsCsv(g) /\ f # g
           /\ SessionBases(f) = {} /\ SessionBases(g) = {})
              => Lower(Stem(f)) # Lower(Stem(g))

\* C16 for such directories; files that are not CSVs are in no event
C16_EveryCsvInOneEventDistinct ==
    (ev_pc = "returned" /\ DistinctRaceNames) =>
        \A f \in series_files :
            IF IsCsv(f) THEN PlacedAsClaimed(f) ELSE TimesPlaced(f) = 0

\* a race file and two session files of one event, written in different
\* cases
C16_Witness ==
    /\ ev_pc = "returned"
    /\ series_files = {<<"A">> \o DotCsv,
                       <<"a">> \o Practice1 \o DotCsv,
                       <<"A">> \o Session12 \o <<".", "C", "S", "V">>}
    /\ DOMAIN events = {<<"a">>}
    /\ events[<<"a">>].race_file = <<"A">> \o DotCsv
    /\ Len(events[<<"a">>].sessions) = 2

-----------------------------------------------------------------------------
(* Specification of one run of streamlit_app from the sidebar on *)

\* lines 219-244: the widgets; the multiselects start with everything
\* selected and cannot be changed while the checkbox is off
FilterInit ==
    /\ \E cars \in SUBSET FilterCars, n \in 1..MaxFilterLaps :
          gf_df = FilterFrame(cars, n)
    /\ apply_global_filters \in BOOLEAN
    /\ selected_classes \in
          (IF apply_global_filters THEN SUBSET AvailableClasses(gf_df)
           ELSE {AvailableClasses(gf_df)})
    /\ selected_cars \in
          (IF apply_global_filters THEN SUBSET AvailableCars(gf_df)
           ELSE {AvailableCars(gf_df)})
    /\ page \in Pages
    /\ gf_pc = "sidebar"
    /\ gf_given = {}
    /\ IdleCore /\ IdlePagesBut("filter")

\* lines 287-330: the renderers of the selected page run
RenderPage ==
    /\ gf_pc = "sidebar"
    /\ gf_given' = GivenToRenderers(page, gf_df)
    /\ gf_pc' = "rendered"
    /\ UNCHANGED <<gf_df, apply_global_filters, selected_classes,
                   selected_cars, page>>
    /\ PagesUnchangedBut("filter")

\* the user changes a widget and the script runs again
Rerun ==
    /\ gf_pc = "rendered"
    /\ apply_global_filters' \in BOOLEAN
    /\ selected_classes' \in
          (IF apply_global_filters' THEN SUBSET AvailableClasses(gf_df)
           ELSE {selected_classes})
    /\ selected_cars' \in
          (IF apply_global_filters' THEN SUBSET AvailableCars(gf_df)
           ELSE {selected_cars})
    /\ page' \in Pages
    /\ gf_pc' = "sidebar"
    /\ gf_given' = {}
    /\ UNCHANGED gf_df
    /\ PagesUnchangedBut("filter")

FilterNext == RenderPage \/ Rerun

SpecGlobalFilters == FilterInit /\ [][FilterNext]_vars

\* C17: with 'Apply global filters' checked the renderers get only rows of
\* the selected classes and cars; unchecked, they get the loaded rows
C17_GlobalFiltersApplied ==
    gf_pc = "rendered" =>
        IF apply_global_filters
        THEN \A D \in gf_given : \A r \in D :
                r.CLASS \in selected_classes /\ r.NUMBER \in selected_cars
        ELSE \A D \in gf_given : D = gf_df

\* what holds: the selections have no effect on what the renderers get
C17_SelectionsIgnored ==
    gf_pc = "rendered" =>
        /\ gf_given = GivenToRenderers(page, gf_df)
        /\ page # "Team by team" => gf_given = {gf_df}

-----------------------------------------------------------------------------
(* Specification of detect_pit_laps and show_practice_fastest_laps on the  *)
(* rows of one car                                                         *)

PitInit ==
    /\ \E n \in 0..MaxPitLaps :
          \E t \in [1..n -> PaceLapTimes], f \in [1..n -> PitFlagCells],
             pt \in [1..n -> PitTimeCells] : pl_df = PitFrame(n, t, f, pt)
    /\ pit_laps = Null
    /\ fastest = Null
    /\ IdleCore /\ IdlePagesBut("pit")

CallDetectPitLaps ==
    /\ pit_laps = Null
    /\ pit_laps' = [tag |-> "series", rows |-> {r \in pl_df : detect_pit_laps(r)}]
    /\ UNCHANGED <<pl_df, fastest>>
    /\ PagesUnchangedBut("pit")

\* the table, or nothing when no lap is left (lines 67-69 and 78-80)
ShowPracticeFastestLaps ==
    /\ fastest = Null
    /\ \E T \in FastestTables(pl_df) :
          fastest' = [tag |-> "table", rows |-> T]
    /\ UNCHANGED <<pl_df, pit_laps>>
    /\ PagesUnchangedBut("pit")

PitNext == CallDetectPitLaps \/ ShowPracticeFastestLaps

SpecPitLaps == PitInit /\ [][PitNext]_vars

\* C18: a lap whose pit-in indicator is 'B' is a pit lap for
\* detect_pit_laps, and is never the fastest lap reported for a car
C18_PitInLapDetectedAndExcluded ==
    /\ pit_laps # Null =>
          \A r \in pl_df : IsB(r.PIT) => r \in pit_laps.rows
    /\ fastest # Null => \A r \in fastest.rows : ~IsB(r.PIT)

\* what holds: the laps with the number 1 in the column are detected and
\* excluded
C18_NumberOneDetectedAndExcluded ==
    /\ pit_laps # Null =>
          \A r \in pl_df : IsOne(r.PIT) => r \in pit_laps.rows
    /\ fastest # Null => \A r \in fastest.rows : ~IsOne(r.PIT)

-----------------------------------------------------------------------------
(* Specification of infer_tyre_stints *)

TyreInit ==
    /\ \E n \in 1..MaxTyreLaps, ascending \in BOOLEAN, other \in BOOLEAN :
          \E drv \in [1..n -> TyreDrivers], f \in [1..n -> TyrePitCells],
             pt \in [1..n -> TyrePitTimes] :
              tyre_df = TyreFrame(n, ascending, drv, f, pt, other)
    /\ tyre_rows = <<>>
    /\ ty_i = 0
    /\ stint_id = 0
    /\ prev_car = NoneId
    /\ tyre_stint_ids = <<>>
    /\ ty_pc = "start"
    /\ IdleCore /\ IdlePagesBut("tyre")

\* lines 36-48: the columns, the sort, the start of the loop
PrepareTyreStints ==
    /\ ty_pc = "start"
    /\ tyre_rows' = SortByCarLap(WithPitLapDriverChanged(tyre_df))
    /\ ty_i' = 1
    /\ stint_id' = 0
    /\ prev_car' = NoneId
    /\ ty_pc' = "loop"
    /\ UNCHANGED <<tyre_df, tyre_stint_ids>>
    /\ PagesUnchangedBut("tyre")

\* lines 50-58: one row
AssignStintId ==
    /\ ty_pc = "loop" /\ ty_i <= Len(tyre_rows)
    /\ LET row == tyre_rows[ty_i]
           bump == IF row.CAR_ID # prev_car THEN "first" ELSE StintTest(row)
           id == IF bump = "first" THEN 0
                 ELSE IF bump = "yes" THEN stint_id + 1 ELSE stint_id
       IN  IF bump = "TypeError"
           THEN /\ ty_pc' = "TypeError"
                /\ UNCHANGED <<ty_i, stint_id, prev_car, tyre_stint_ids>>
           ELSE /\ stint_id' = id
                /\ tyre_stint_ids' = Append(tyre_stint_ids, id)
                /\ prev_car' = row.CAR_ID
                /\ ty_i' = ty_i + 1
                /\ UNCHANGED ty_pc
    /\ UNCHANGED <<tyre_df, tyre_rows>>
    /\ PagesUnchangedBut("tyre")

\* line 60
ReturnTyreStints ==
    /\ ty_pc = "loop" /\ ty_i > Len(tyre_rows)
    /\ ty_pc' = "returned"
    /\ UNCHANGED <<tyre_df, tyre_rows, ty_i, stint_id, prev_car,
                   tyre_stint_ids>>
    /\ PagesUnchangedBut("tyre")

TyreNext == PrepareTyreStints \/ AssignStintId \/ ReturnTyreStints

SpecTyreStints == TyreInit /\ [][TyreNext]_vars

\* the pit time of the row is above 5 seconds
PitTimeAbove5(row) ==
    LET t == parse_pit_time(row.PIT_TIME)
    IN  IsNum(t) /\ t.v > 5 * Scale

\* C19: infer_tyre_stints gives every row an id; the id is 0 on the first
\* lap of a car, and from one lap of the car to the next it stays or grows
\* by 1, and grows only on a detected pit lap whose driver differs from the
\* driver of the car's previous lap or whose pit time is above 5 seconds
C19_TyreStintIds ==
    /\ ty_pc # "TypeError"
    /\ \A k \in 1..Len(tyre_stint_ids) :
          IF k = 1 \/ tyre_rows[k].CAR_ID # tyre_rows[k - 1].CAR_ID
          THEN tyre_stint_ids[k] = 0
          ELSE /\ tyre_stint_ids[k] - tyre_stint_ids[k - 1] \in {0, 1}
               /\ tyre_stint_ids[k] > tyre_stint_ids[k - 1] =>
                     /\ tyre_rows[k].PIT_LAP
                     /\ \/ tyre_rows[k].DRIVER_NUMBER
                              # tyre_rows[k - 1].DRIVER_NUMBER
                        \/ PitTimeAbove5(tyre_rows[k])

\* the same for files with numeric pit times whose rows are in lap order
C19_TyreStintIdsSortedNumeric ==
    ((\A i \in 1..Len(tyre_df) : ~IsStr(tyre_df[i].PIT_TIME))
     /\ (\A i \in 1..(Len(tyre_df) - 1) :
            tyre_df[i].CAR_ID = tyre_df[i + 1].CAR_ID
               => tyre_df[i].LAP_NUMBER < tyre_df[i + 1].LAP_NUMBER))
    => C19_TyreStintIds

-----------------------------------------------------------------------------
(* Specification of show_results_table *)

\* the cars before the last are of class GT, the last of either class
ResultInit ==
    /\ \E n \in 1..MaxResultCars :
          \E k \in [1..n -> 1..MaxResultLaps], e \in [1..n -> ElapsedLast],
             last \in ResultClassNames :
              res_df = ResultFrame(n, k, e,
                           [c \in 1..n |-> IF c = n THEN last ELSE "GT"])
    /\ selected_class \in ResultClasses(res_df)
    /\ display_df = <<>>
    /\ res_pc = "start"
    /\ IdleCore /\ IdlePagesBut("result")

\* one run of show_results_table; with no row left in the class
\* last_lap_times is empty and last_lap_times.loc[0, ...] raises KeyError
ShowResultsTable ==
    /\ res_pc = "start"
    /\ LET cdf == ResultClassDf(res_df, selected_class)
       IN  IF cdf = {}
           THEN /\ res_pc' = "KeyError"
                /\ display_df' = <<>>
           ELSE /\ res_pc' = "shown"
                /\ display_df' = DisplayDf(cdf)
    /\ UNCHANGED <<res_df, selected_class>>
    /\ PagesUnchangedBut("result")

\* the user picks another class and the script runs again
SelectClass ==
    /\ res_pc \in {"shown", "KeyError"}
    /\ \E c \in ResultClasses(res_df) \ {selected_class} :
          selected_class' = c
    /\ res_pc' = "start"
    /\ display_df' = <<>>
    /\ UNCHANGED res_df
    /\ PagesUnchangedBut("result")

ResultNext == ShowResultsTable \/ SelectClass

SpecResults == ResultInit /\ [][ResultNext]_vars

\* the cars of the selected class, and those with a lap that has an elapsed
\* time
CarsOfClass == {r.NUMBER : r \in {q \in res_df : q.CLASS = selected_class}}
TimedCarsOfClass ==
    {r.NUMBER : r \in {q \in res_df : /\ q.CLASS = selected_class
                                      /\ q.ELAPSED # Missing}}

\* the car is in exactly one row of the table
ListedOnce(car) ==
    Cardinality({i \in 1..Len(display_df) : display_df[i].NUMBER = car}) = 1

\* the time shown in the ELAPSED cell of a row, in thousandths
ElapsedOf(row) ==
    LET p == Split(row.ELAPSED, ":")
    IN  NatVal(p[1]) * 60 * Scale + SecVal(p[2])

\* the rows are ordered by laps descending, then elapsed time ascending
OrderedByLapsThenElapsed ==
    \A i \in 1..(Len(display_df) - 1) :
        \/ display_df[i].LAP_NUMBER > display_df[i + 1].LAP_NUMBER
        \/ /\ display_df[i].LAP_NUMBER = display_df[i + 1].LAP_NUMBER
           /\ ElapsedOf(display_df[i]) <= ElapsedOf(display_df[i + 1])

\* the text is a number of seconds with at most three decimals
IsTimeText(s) ==
    LET p == Split(s, ".")
    IN  /\ Len(p) \in {1, 2}
        /\ p[1] # <<>> /\ AllDigits(p[1])
        /\ Len(p) = 2 => (p[2] # <<>> /\ AllDigits(p[2]))

\* the interval cell without its unit
IntervalTime(s) == SubSeq(s, 1, Len(s) - Len(SecondsUnit))

\* the sum of the intervals of the rows 2..i, in thousandths
RECURSIVE SumOfIntervals(_)
SumOfIntervals(i) ==
    IF i <= 1 THEN 0
    ELSE SecVal(IntervalTime(display_df[i].interval)) + SumOfIntervals(i - 1)

\* "N lap down" or "N laps down" for N laps behind the leader
IsLapsDown(s, n) ==
    \/ n = 1 /\ s = <<"1">> \o <<" ", "l", "a", "p">> \o Down
    \/ n > 1 /\ s = Decimal(n) \o <<" ", "l", "a", "p", "s">> \o Down

\* order, gaps and laps down of the rows of the table
GapsAsClaimed ==
    /\ OrderedByLapsThenElapsed
    /\ \A i \in 1..Len(display_df) :
          LET behind == display_df[1].LAP_NUMBER - display_df[i].LAP_NUMBER
              gap == display_df[i].gap_to_leader
          IN  IF behind = 0
              THEN /\ IsTimeText(gap)
                   /\ SecVal(gap) >= 0
                   /\ SecVal(gap) = SumOfIntervals(i)
              ELSE IsLapsDown(gap, behind)

C20_WitnessLapsDown ==
    /\ res_pc = "shown"
    /\ \E i \in 1..Len(display_df) :
          display_df[i].gap_to_leader = <<"1">> \o <<" ", "l", "a", "p">> \o Down

-----------------------------------------------------------------------------
(* C21 *)

\* the flag values of the lap's records, nulls left out
LapFlagValues == {r.FLAG_AT_FL : r \in LapRows} \ {NoFlag}
\* the records the leader is taken from: those not flagged 'B', or all of
\* them when every record is flagged 'B'
EligibleRows == IF NonPitRows = {} THEN LapRows ELSE NonPitRows
\* the leader of the lap is first of the eligible records by HOUR / ELAPSED
LeaderRecomputed ==
    \E r \in EligibleRows :
        r.CAR_ID = CurLeader /\ \A q \in EligibleRows : Ahead(r, q)

\* C21: the leader of a lap is carried forward only on a lap, not the first,
\* whose non-null FLAG_AT_FL values are all 'FCY'; on a lap with two or more
\* distinct flag values and on the first lap the leader is the first of the
\* lap's eligible records by HOUR / ELAPSED.
C21_CarryOnlyOnUniformFCY ==
    Picked =>
        /\ (Cardinality(LapFlagValues) >= 2 \/ ~HasPrevLeader)
              => LeaderRecomputed
        /\ ~LeaderRecomputed
              => (LapFlagValues = {"FCY"} /\ HasPrevLeader
                  /\ CurLeader = PrevLeader)

\* a lap after the first with the flags 'FCY' and 'GF' on which the previous
\* leader is not in the pit and is strictly behind the car that takes the
\* lead
C21_Witness ==
    /\ Picked /\ HasPrevLeader
    /\ LapFlagValues = {"FCY", "GF"}
    /\ CurLeader # PrevLeader
    /\ \E r, q \in NonPitRows :
          r.CAR_ID = CurLeader /\ q.CAR_ID = PrevLeader /\ ~Ahead(q, r)

====
